---- MODULE Spec2Model ----
(***************************************************************************)
(* Scriptum subtitle synchronisation: the refinement loop of auto_sync.py, *)
(* the analysis pass and framerate conversion of sync_utils.py, and the     *)
(* service entry points of sync_service.py.                                 *)
(*                                                                          *)
(* Numbers.  Subtitle timestamps are whole milliseconds (pysrt ordinals).   *)
(* A per-point offset is a median of millisecond deltas, hence a multiple   *)
(* of half a millisecond: it is kept doubled ("X2").  A mean of 3..5 such   *)
(* offsets is a multiple of 1/120 ms: means and the cumulative correction   *)
(* are kept in units of 1/120 ms ("U").  A standard deviation is kept as    *)
(* the variance, a fraction num/den of ms^2, and only ever compared with    *)
(* thresholds.  Python computes these in binary floating point; the model   *)
(* computes them exactly.                                                   *)
(***************************************************************************)
EXTENDS Integers, Sequences, FiniteSets, TLC

VARIABLES
    state,            \* position in main() / the service method
    iteration,        \* auto_sync.main: iteration
    total_correction, \* auto_sync.main: total_correction, in U
    original,         \* the caller's subtitle file (srt_original / subtitle_path)
    work,             \* the work file (work_file)
    output,           \* the output file (*.sync.srt / output_path)
    duration,         \* video duration in ms (get_video_duration)
    speech,           \* the video's spoken lines: start times in ms, ascending
    shift,            \* k: every entry of the original track is at speech - k
    hearing,          \* per sample point, the positions of the lines the transcriber recognises
    point,            \* index of the next sample point of the running pass
    offsets,          \* analyze_sync*: offsets collected by the running pass (X2)
    report,           \* what the last finished analysis pass returned
    failure,          \* why the run ended without a result
    passes,           \* number of analysis passes started (history)
    method,           \* the entry point that runs
    video_name,       \* video_path.name
    subtitle_name,    \* subtitle_path.name
    video_info,       \* sync_subtitles_with_log: video_info
    subtitle_info,    \* sync_subtitles_with_log: subtitle_info
    version_mismatch, \* sync_subtitles_with_log: version_mismatch
    video_fps,        \* video_fps, in thousandths of a frame per second
    srt_fps,          \* srt_fps: None, or thousandths of a frame per second
    log,              \* the lines of the progress log file
    pending,          \* the lines the running step has still to write with log()
    raised,           \* the exception on its way to the handler
    result,           \* None, or the dictionary the service method returned
    polled,           \* None, or the last answer of get_sync_log
    num_samples,      \* analyze_sync*: num_samples
    sample_points     \* analyze_sync*: sample_points, as fractions num/den of ms

svcVars == <<method, video_name, subtitle_name, video_info, subtitle_info,
             version_mismatch, video_fps, srt_fps, log, pending, raised, result, polled,
             num_samples, sample_points>>

vars == <<state, iteration, total_correction, original, work, output,
          duration, speech, shift, hearing, point, offsets, report, failure, passes,
          svcVars>>

-----------------------------------------------------------------------------
(* Program constants *)

NumSamples == 5
MaxIterations == 5
MinValidPoints == 3
MaxSegments == 15
MatchWindowMs == 5000
AudioWindowMs == 45000
NegligibleMs == 100

(* Units *)
U == 2 * 60                    \* 1 ms = 120 U

None == << >>
Some(v) == << v >>

NoFile == [exists |-> FALSE, subs |-> << >>]
File(subs) == [exists |-> TRUE, subs |-> subs]

Abs(x) == IF x < 0 THEN -x ELSE x
Min(a, b) == IF a <= b THEN a ELSE b
Max(a, b) == IF a >= b THEN a ELSE b

RECURSIVE SumSeq(_)
SumSeq(s) == IF s = << >> THEN 0 ELSE Head(s) + SumSeq(Tail(s))

RECURSIVE Insert(_, _)
Insert(x, s) ==
    IF s = << >> THEN << x >>
    ELSE IF x <= Head(s) THEN << x >> \o s
    ELSE << Head(s) >> \o Insert(x, Tail(s))

RECURSIVE SortedSeq(_)
SortedSeq(s) == IF s = << >> THEN << >> ELSE Insert(Head(s), SortedSeq(Tail(s)))

-----------------------------------------------------------------------------
(* A variant that takes the mean of the data (doubled) for the median.      *)
MeanX2(data) == (2 * SumSeq(data)) \div Len(data)

(* statistics.median, doubled: the middle element, or the mean of the two   *)
(* middle elements.                                                         *)
MedianX2(data) ==
    LET t == SortedSeq(data)
        n == Len(data)
    IN  IF n % 2 = 1 THEN 2 * t[(n + 1) \div 2]
        ELSE t[n \div 2] + t[n \div 2 + 1]

(* A variant of the inner loop that takes the nearest entry of the window.  *)
NearestMatch(subs, absolute_time) ==
    IF \E i \in 1..Len(subs) : Abs(subs[i].start - absolute_time) < MatchWindowMs
    THEN CHOOSE i \in 1..Len(subs) :
            /\ Abs(subs[i].start - absolute_time) < MatchWindowMs
            /\ \A j \in 1..Len(subs) :
                  Abs(subs[i].start - absolute_time) <= Abs(subs[j].start - absolute_time)
            /\ \A j \in 1..(i - 1) :
                  Abs(subs[i].start - absolute_time) < Abs(subs[j].start - absolute_time)
    ELSE 0

(* A variant of the inner loop that also takes an entry exactly 5 s away.    *)
FirstMatchInclusive(subs, absolute_time) ==
    IF \E i \in 1..Len(subs) : Abs(subs[i].start - absolute_time) <= MatchWindowMs
    THEN CHOOSE i \in 1..Len(subs) :
            /\ Abs(subs[i].start - absolute_time) <= MatchWindowMs
            /\ \A j \in 1..(i - 1) : Abs(subs[j].start - absolute_time) > MatchWindowMs
    ELSE 0

(* The inner loop of compute_offset_for_segment: the index of the first     *)
(* entry, in track order, whose start is less than 5 s from absolute_time;  *)
(* 0 when there is none.                                                    *)
FirstMatch(subs, absolute_time) ==
    IF \E i \in 1..Len(subs) : Abs(subs[i].start - absolute_time) < MatchWindowMs
    THEN CHOOSE i \in 1..Len(subs) :
            /\ Abs(subs[i].start - absolute_time) < MatchWindowMs
            /\ \A j \in 1..(i - 1) : Abs(subs[j].start - absolute_time) >= MatchWindowMs
    ELSE 0

RECURSIVE Deltas(_, _, _)
Deltas(subs, segments, start_time_offset) ==
    IF segments = << >> THEN << >>
    ELSE LET absolute_time == start_time_offset + Head(segments)
             m == FirstMatch(subs, absolute_time)
         IN  (IF m = 0 THEN << >> ELSE << absolute_time - subs[m].start >>)
                \o Deltas(subs, Tail(segments), start_time_offset)

(* A variant of the estimator that uses every segment.                      *)
compute_offset_every_segment(subs, segments, start_time_offset) ==
    LET d == Deltas(subs, segments, start_time_offset)
    IN  IF d = << >> THEN None ELSE Some(MedianX2(d))

(* compute_offset_for_segment: None, or the median (X2) of the deltas of    *)
(* the first 15 segments.                                                   *)
compute_offset_for_segment(subs, segments, start_time_offset) ==
    LET used == SubSeq(segments, 1, Min(MaxSegments, Len(segments)))
        d == Deltas(subs, used, start_time_offset)
    IN  IF d = << >> THEN None ELSE Some(MedianX2(d))

-----------------------------------------------------------------------------
(* The sample planner of analyze_sync / analyze_sync_quality:               *)
(* step = video_duration / (num_samples + 1), point i = step * i.           *)
(* Durations are drawn as multiples of num_samples + 1 ms, so the points    *)
(* are whole milliseconds.                                                  *)
SamplePoint(video_duration, i) == (video_duration * i) \div (NumSamples + 1)

(* A variant of the planner that counts the points from 0.                  *)
PlannedFromZero(video_duration, n) ==
    [ i \in 1..n |-> [num |-> video_duration * (i - 1), den |-> n + 1] ]

(* The whole plan, for any number of samples: point i is                    *)
(* video_duration * i / (num_samples + 1), kept as a fraction.              *)
PlannedPoints(video_duration, n) ==
    [ i \in 1..n |-> [num |-> video_duration * i, den |-> n + 1] ]

(* int(start_time): the start, in whole seconds, of the audio window that   *)
(* extract_audio is asked for.                                              *)
WindowStart(start_time) == (start_time \div 1000) * 1000

(* The spoken lines that start inside the 45 s window, relative to the      *)
(* start of the extracted audio, in order.                                  *)
Heard(lines, window_start) ==
    LET inside == { j \in 1..Len(lines) :
                      /\ lines[j] >= window_start
                      /\ lines[j] < window_start + AudioWindowMs }
    IN  SortedSeq([ j \in 1..Cardinality(inside) |->
            LET idx == CHOOSE x \in inside :
                          Cardinality({ y \in inside : y < x }) = j - 1
            IN  lines[idx] - window_start ])

(* The subsequence of s at the positions in keep.                           *)
RECURSIVE Pick(_, _, _)
Pick(s, keep, i) ==
    IF i > Len(s) THEN << >>
    ELSE (IF i \in keep THEN << s[i] >> ELSE << >>) \o Pick(s, keep, i + 1)

(* The transcriber is a collaborator.  Of the lines spoken in a window it   *)
(* recognises those at the positions in recognised (the same ones on every  *)
(* pass: the audio does not change), each correctly timed; on any call it   *)
(* may also return no segment at all.                                       *)
Transcripts(lines, window_start, recognised) ==
    LET h == Heard(lines, window_start)
    IN  { Pick(h, recognised, 1), << >> }

-----------------------------------------------------------------------------
(* statistics.mean of the offsets, in U (offsets are X2, n is 3, 4 or 5).   *)
MeanU(xs) == (SumSeq(xs) * (U \div 2)) \div Len(xs)

(* statistics.stdev of the offsets, as the sample variance num/den in ms^2. *)
(* The variance does not change when every offset is moved by the same      *)
(* amount; the sums are taken relative to the first offset.                 *)
VarianceOf(xs) ==
    LET n == Len(xs)
        ys == [ i \in 1..n |-> xs[i] - xs[1] ]
        sq == [ i \in 1..n |-> ys[i] * ys[i] ]
    IN  [num |-> n * SumSeq(sq) - SumSeq(ys) * SumSeq(ys),
         den |-> 4 * n * (n - 1)]

StdBelow(var, limit_ms) == var.num < limit_ms * limit_ms * var.den

(* A variant of the ladder that tests the offset itself, not its size.      *)
QualityLabelSigned(avg_offset, std_dev) ==
    IF avg_offset < 300 * U /\ StdBelow(std_dev, 500) THEN "PERFEITO"
    ELSE IF avg_offset < 800 * U /\ StdBelow(std_dev, 1000) THEN "BOM"
    ELSE IF avg_offset < 2000 * U /\ StdBelow(std_dev, 2000) THEN "ACEITAVEL"
    ELSE "RUIM"

(* A variant of the ladder whose bounds are not strict.                     *)
QualityLabelInclusive(avg_offset, std_dev) ==
    IF Abs(avg_offset) <= 300 * U /\ std_dev.num <= 500 * 500 * std_dev.den THEN "PERFEITO"
    ELSE IF Abs(avg_offset) <= 800 * U /\ std_dev.num <= 1000 * 1000 * std_dev.den THEN "BOM"
    ELSE IF Abs(avg_offset) <= 2000 * U /\ std_dev.num <= 2000 * 2000 * std_dev.den
         THEN "ACEITAVEL"
    ELSE "RUIM"

(* The quality ladder of analyze_sync_quality (auto_sync.py).               *)
QualityLabel(avg_offset, std_dev) ==
    IF Abs(avg_offset) < 300 * U /\ StdBelow(std_dev, 500) THEN "PERFEITO"
    ELSE IF Abs(avg_offset) < 800 * U /\ StdBelow(std_dev, 1000) THEN "BOM"
    ELSE IF Abs(avg_offset) < 2000 * U /\ StdBelow(std_dev, 2000) THEN "ACEITAVEL"
    ELSE "RUIM"

(* The same ladder in utils.py, with its own labels.                        *)
calculate_sync_quality(offset, std_dev) ==
    IF Abs(offset) < 300 * U /\ StdBelow(std_dev, 500) THEN "PERFEITO"
    ELSE IF Abs(offset) < 800 * U /\ StdBelow(std_dev, 1000) THEN "BOM"
    ELSE IF Abs(offset) < 2000 * U /\ StdBelow(std_dev, 2000) THEN "MEDIO"
    ELSE "FRACO"

(* A variant of the aggregator that accepts one point fewer.                 *)
AggregatedFromTwo(xs) ==
    IF Len(xs) < MinValidPoints - 1
    THEN [offsets |-> None, avg_offset |-> None, std_dev |-> None, quality |-> "RUIM"]
    ELSE [offsets |-> Some(xs),
          avg_offset |-> Some(MeanU(xs)),
          std_dev |-> Some(VarianceOf(xs)),
          quality |-> QualityLabel(MeanU(xs), VarianceOf(xs))]

(* The tail of analyze_sync_quality: what it returns for the offsets the    *)
(* pass collected.                                                          *)
Aggregated(xs) ==
    IF Len(xs) < MinValidPoints
    THEN [offsets |-> None, avg_offset |-> None, std_dev |-> None, quality |-> "RUIM"]
    ELSE [offsets |-> Some(xs),
          avg_offset |-> Some(MeanU(xs)),
          std_dev |-> Some(VarianceOf(xs)),
          quality |-> QualityLabel(MeanU(xs), VarianceOf(xs))]

NoReport == [offsets |-> None, avg_offset |-> None, std_dev |-> None, quality |-> "-"]

(* pysrt: shift(seconds=offset) adds the offset to every start and end;     *)
(* save() writes whole milliseconds (the fraction is dropped) and writes a  *)
(* negative time as 00:00:00,000.                                           *)
ShiftedMs(ms, offset_u) == Max(0, (ms * U + offset_u) \div U)

apply_offset(subs, offset_u) ==
    [ i \in 1..Len(subs) |->
        [start |-> ShiftedMs(subs[i].start, offset_u),
         end |-> ShiftedMs(subs[i].end, offset_u)] ]

-----------------------------------------------------------------------------
(* Inputs *)

Shifts == {0, 250, 1500, -1000, 4500}
Layouts == {"sparse", "dense"}
Durations == {3600000, 3603000}

(* What the transcriber recognises at each sample point: every line, the    *)
(* first line only, or the first line at odd points and the second at even  *)
(* points.                                                                  *)
Hearings ==
    { [ i \in 1..NumSamples |-> {1, 2} ],
      [ i \in 1..NumSamples |-> {1} ],
      [ i \in 1..NumSamples |-> IF i % 2 = 1 THEN {1} ELSE {2} ] }

(* The spoken lines of the video: one line ("sparse") or two lines 2 s      *)
(* apart ("dense") 10 s into each sample window.                            *)
SpeechOf(layout, d) ==
    IF layout = "sparse"
    THEN [ j \in 1..NumSamples |-> WindowStart(SamplePoint(d, j)) + 10000 ]
    ELSE [ j \in 1..(2 * NumSamples) |->
            WindowStart(SamplePoint(d, (j + 1) \div 2)) + 10000
                + (IF j % 2 = 0 THEN 2000 ELSE 0) ]

(* A track whose every entry is k earlier than its spoken line.             *)
TrackOf(lines, k) ==
    [ j \in 1..Len(lines) |-> [start |-> lines[j] - k, end |-> lines[j] - k + 1500] ]

(* A file name, as far as detect_version_info reads it: the source patterns *)
(* that occur in the upper-cased name, and the text after the last dash.    *)
NoName == [text |-> "", patterns |-> {}, resolution |-> "", codec |-> "", year |-> "",
           group |-> ""]
NoInfo == [source |-> "", resolution |-> "", codec |-> "", year |-> "", release_group |-> ""]

-----------------------------------------------------------------------------
(* auto_sync.main *)

Init ==
    /\ state = "START"
    /\ iteration = 0
    /\ total_correction = 0
    /\ \E k \in Shifts, layout \in Layouts, d \in Durations :
        /\ duration = d
        /\ speech = SpeechOf(layout, d)
        /\ shift = k
        /\ original = File(TrackOf(SpeechOf(layout, d), k))
    /\ hearing \in Hearings
    /\ work = NoFile
    /\ output = NoFile
    /\ point = 1
    /\ offsets = << >>
    /\ report = NoReport
    /\ failure = "none"
    /\ passes = 0
    /\ method = "main"
    /\ video_name = NoName
    /\ subtitle_name = NoName
    /\ video_info = NoInfo
    /\ subtitle_info = NoInfo
    /\ version_mismatch = FALSE
    /\ video_fps = 0
    /\ srt_fps = None
    /\ log = << >>
    /\ pending = << >>
    /\ raised = ""
    /\ result = None
    /\ polled = None
    /\ num_samples = NumSamples
    /\ sample_points = PlannedPoints(duration, NumSamples)

(* The paths main() derives from srt_path, as the components between the    *)
(* dots of the file name: Path.stem drops the last suffix,                  *)
(* with_suffix('.work.srt') and with_name(stem + '.sync.srt') replace it.   *)
Stem(p) == IF Len(p) > 1 THEN SubSeq(p, 1, Len(p) - 1) ELSE p
WorkPath(p) == Stem(p) \o << "work", "srt" >>
OutputPath(p) == Stem(p) \o << "sync", "srt" >>
SrtPaths ==
    { << "movie" >>, << "movie", "srt" >>, << "movie", "work", "srt" >>,
      << "movie", "sync", "srt" >>, << "movie", "sync", "work", "srt" >>,
      << "movie", "work", "sync", "srt" >> }

(* shutil.copy(srt_original, work_file); the first iteration begins.        *)
CopyToWork ==
    /\ method = "main"
    /\ state = "START"
    /\ work' = original
    /\ iteration' = 1
    /\ passes' = 1
    /\ state' = "ANALYZING"
    /\ UNCHANGED <<total_correction, original, output, duration, speech, shift, hearing,
                   point, offsets, report, failure>>
    /\ UNCHANGED svcVars

(* A variant of the sample point that shifts the work file by the offset    *)
(* it has just found.                                                       *)
AnalyzePointShifting ==
    /\ state = "ANALYZING"
    /\ point <= NumSamples
    /\ LET start_time == SamplePoint(duration, point)
       IN  \E segments \in Transcripts(speech, WindowStart(start_time), hearing[point]) :
             LET found == compute_offset_for_segment(work.subs, segments, start_time)
             IN  /\ offsets' = offsets \o found
                 /\ work' = IF found = << >> THEN work
                            ELSE File(apply_offset(work.subs, found[1] * (U \div 2)))
    /\ point' = point + 1
    /\ UNCHANGED <<state, iteration, total_correction, original, output,
                   duration, speech, shift, hearing, report, failure, passes>>
    /\ UNCHANGED svcVars

(* One sample point of the pass: extract, transcribe, compute the offset;   *)
(* a point without offset adds nothing.                                     *)
AnalyzePoint ==
    /\ state = "ANALYZING"
    /\ point <= NumSamples
    /\ LET start_time == SamplePoint(duration, point)
       IN  \E segments \in Transcripts(speech, WindowStart(start_time), hearing[point]) :
             offsets' = offsets \o compute_offset_for_segment(work.subs, segments, start_time)
    /\ point' = point + 1
    /\ UNCHANGED <<state, iteration, total_correction, original, work, output,
                   duration, speech, shift, hearing, report, failure, passes>>
    /\ UNCHANGED svcVars

(* extract_audio (check=True) or transcribe raises at a sample point: the   *)
(* pass has no handler, the exception leaves analyze_sync_quality and       *)
(* main(), and the process ends with the work file left behind.             *)
PointRaises ==
    /\ method = "main"
    /\ state = "ANALYZING"
    /\ point <= NumSamples
    /\ state' = "FAILED"
    /\ failure' = "exception"
    /\ UNCHANGED <<iteration, total_correction, original, work, output, duration,
                   speech, shift, hearing, point, offsets, report, passes>>
    /\ UNCHANGED svcVars

(* The pass returns.                                                        *)
Aggregate ==
    /\ method = "main"
    /\ state = "ANALYZING"
    /\ point = NumSamples + 1
    /\ report' = Aggregated(offsets)
    /\ state' = "DECIDING"
    /\ UNCHANGED <<iteration, total_correction, original, work, output, duration,
                   speech, shift, hearing, point, offsets, failure, passes>>
    /\ UNCHANGED svcVars

(* A variant of the abort that leaves the work file in place.               *)
AbortKeepingWork ==
    /\ method = "main"
    /\ state = "DECIDING"
    /\ report.offsets = None
    /\ state' = "FAILED"
    /\ failure' = "insufficient"
    /\ UNCHANGED <<iteration, total_correction, original, work, output, duration, speech,
                   shift, hearing, point, offsets, report, passes>>
    /\ UNCHANGED svcVars

(* offsets is None: work_file.unlink(); sys.exit(1).                        *)
AbortInsufficient ==
    /\ method = "main"
    /\ state = "DECIDING"
    /\ report.offsets = None
    /\ work' = NoFile
    /\ state' = "FAILED"
    /\ failure' = "insufficient"
    /\ UNCHANGED <<iteration, total_correction, original, output, duration, speech,
                   shift, hearing, point, offsets, report, passes>>
    /\ UNCHANGED svcVars

(* quality == "PERFEITO": break.                                            *)
StopPerfect ==
    /\ method = "main"
    /\ state = "DECIDING"
    /\ report.offsets # None
    /\ report.quality = "PERFEITO"
    /\ state' = "CONVERGED"
    /\ UNCHANGED <<iteration, total_correction, original, work, output, duration,
                   speech, shift, hearing, point, offsets, report, failure, passes>>
    /\ UNCHANGED svcVars

(* abs(avg_offset) > 0.1 fails: break.                                      *)
StopNegligible ==
    /\ method = "main"
    /\ state = "DECIDING"
    /\ report.offsets # None
    /\ report.quality # "PERFEITO"
    /\ ~(Abs(report.avg_offset[1]) > NegligibleMs * U)
    /\ state' = "CONVERGED"
    /\ UNCHANGED <<iteration, total_correction, original, work, output, duration,
                   speech, shift, hearing, point, offsets, report, failure, passes>>
    /\ UNCHANGED svcVars

(* A variant of the test that does not look at the label.                   *)
BeginCorrectionAnyLabel ==
    /\ method = "main"
    /\ state = "DECIDING"
    /\ report.offsets # None
    /\ Abs(report.avg_offset[1]) > NegligibleMs * U
    /\ state' = "CORRECTING"
    /\ UNCHANGED <<iteration, total_correction, original, work, output, duration,
                   speech, shift, hearing, point, offsets, report, failure, passes>>
    /\ UNCHANGED svcVars

(* A variant of the test that also corrects an offset of exactly 0.1 s.     *)
BeginCorrectionAtBound ==
    /\ method = "main"
    /\ state = "DECIDING"
    /\ report.offsets # None
    /\ report.quality # "PERFEITO"
    /\ Abs(report.avg_offset[1]) >= NegligibleMs * U
    /\ state' = "CORRECTING"
    /\ UNCHANGED <<iteration, total_correction, original, work, output, duration,
                   speech, shift, hearing, point, offsets, report, failure, passes>>
    /\ UNCHANGED svcVars

(* abs(avg_offset) > 0.1: the correction is to be applied.                  *)
BeginCorrection ==
    /\ method = "main"
    /\ state = "DECIDING"
    /\ report.offsets # None
    /\ report.quality # "PERFEITO"
    /\ Abs(report.avg_offset[1]) > NegligibleMs * U
    /\ state' = "CORRECTING"
    /\ UNCHANGED <<iteration, total_correction, original, work, output, duration,
                   speech, shift, hearing, point, offsets, report, failure, passes>>
    /\ UNCHANGED svcVars

(* A variant of the correction whose loop test admits one more pass.        *)
ApplyCorrectionOnceMore ==
    /\ method = "main"
    /\ state = "CORRECTING"
    /\ work' = File(apply_offset(work.subs, report.avg_offset[1]))
    /\ total_correction' = total_correction + report.avg_offset[1]
    /\ IF iteration <= MaxIterations
       THEN /\ iteration' = iteration + 1
            /\ passes' = passes + 1
            /\ point' = 1
            /\ offsets' = << >>
            /\ state' = "ANALYZING"
       ELSE /\ state' = "EXHAUSTED"
            /\ UNCHANGED <<iteration, passes, point, offsets>>
    /\ UNCHANGED <<original, output, duration, speech, shift, hearing, report, failure>>
    /\ UNCHANGED svcVars

(* apply_offset(work_file, avg_offset, work_file); total_correction +=      *)
(* avg_offset; then the loop test: another iteration, or the loop ends.     *)
ApplyCorrection ==
    /\ method = "main"
    /\ state = "CORRECTING"
    /\ work' = File(apply_offset(work.subs, report.avg_offset[1]))
    /\ total_correction' = total_correction + report.avg_offset[1]
    /\ IF iteration < MaxIterations
       THEN /\ iteration' = iteration + 1
            /\ passes' = passes + 1
            /\ point' = 1
            /\ offsets' = << >>
            /\ state' = "ANALYZING"
       ELSE /\ state' = "EXHAUSTED"
            /\ UNCHANGED <<iteration, passes, point, offsets>>
    /\ UNCHANGED <<original, output, duration, speech, shift, hearing, report, failure>>
    /\ UNCHANGED svcVars

(* shutil.move(work_file, output).                                          *)
SaveResult ==
    /\ method = "main"
    /\ state \in {"CONVERGED", "EXHAUSTED"}
    /\ work.exists
    /\ output' = work
    /\ work' = NoFile
    /\ UNCHANGED <<state, iteration, total_correction, original, duration, speech,
                   shift, hearing, point, offsets, report, failure, passes>>
    /\ UNCHANGED svcVars

Next ==
    \/ CopyToWork
    \/ AnalyzePoint
    \/ PointRaises
    \/ Aggregate
    \/ AbortInsufficient
    \/ StopPerfect
    \/ StopNegligible
    \/ BeginCorrection
    \/ ApplyCorrection
    \/ SaveResult

Spec == Init /\ [][Next]_vars

-----------------------------------------------------------------------------
(* sync_utils.py: framerates *)

(* common_fps of detect_srt_framerate, in thousandths, in list order.       *)
CommonFps == << 23976, 24000, 25000, 29970, 30000, 50000, 59940, 60000 >>

(* int(ms * ratio) with ratio = to_fps / from_fps.  The product is a float: *)
(* when the exact product is a whole number the float may lie just below    *)
(* it, and int() then gives one less (inexact says which).                  *)
ConvertedMs(ms, from_fps, to_fps, inexact) ==
    LET q == (ms * to_fps) \div from_fps
        whole == (ms * to_fps) % from_fps = 0
    IN  IF whole /\ inexact /\ q > 0 THEN q - 1 ELSE q

(* convert_framerate: every start and end is rescaled.                      *)
convert_framerate(subs, from_fps, to_fps, inexact) ==
    [ i \in 1..Len(subs) |->
        [start |-> ConvertedMs(subs[i].start, from_fps, to_fps, inexact),
         end |-> ConvertedMs(subs[i].end, from_fps, to_fps, inexact)] ]

(* detect_srt_framerate: None for fewer than 100 entries; otherwise the     *)
(* rate whose frame duration divides most of the first 200 millisecond      *)
(* fields to within 5 ms (the first such rate; 25.0 when none scores).      *)
(* 1000 / 30 and 1000 / 60 are floats just above the exact quotient, so the  *)
(* float remainder of an ms of a frame or more lies just below the exact    *)
(* one: a whole multiple of the frame leaves almost a whole frame, and an   *)
(* exact remainder of 5 leaves just under 5.                                *)
FrameRoundedUp == {30000, 60000}

FpsMatches(ms, fps) ==
    LET r == (ms * fps) % 1000000
    IN  IF fps \in FrameRoundedUp /\ ms * fps >= 1000000 THEN r > 0 /\ r <= 5 * fps
        ELSE r < 5 * fps

FpsScore(subs, fps) ==
    Cardinality({ i \in 1..Min(200, Len(subs)) :
                    FpsMatches(subs[i].start % 1000, fps) })

(* best_score: the highest count over common_fps.                           *)
BestScore(subs) ==
    LET scores == { FpsScore(subs, CommonFps[j]) : j \in 1..Len(CommonFps) }
    IN  CHOOSE s \in scores : \A t \in scores : t <= s

detect_srt_framerate(subs) ==
    IF Len(subs) < 100 THEN None
    ELSE LET best == CHOOSE i \in 1..Len(CommonFps) :
                        /\ \A j \in 1..Len(CommonFps) :
                              FpsScore(subs, CommonFps[j]) <= FpsScore(subs, CommonFps[i])
                        /\ \A j \in 1..(i - 1) :
                              FpsScore(subs, CommonFps[j]) < FpsScore(subs, CommonFps[i])
         IN  IF FpsScore(subs, CommonFps[best]) = 0 THEN Some(25000)
             ELSE Some(CommonFps[best])

(* A variant of the test that also converts at a difference of exactly 0.5. *)
NeedsConversionAtBound(vfps, sfps) == sfps # None /\ Abs(vfps - sfps[1]) >= 500

(* fps_diff > 0.5 with fps_diff = abs(video_fps - srt_fps) if srt_fps else 0 *)
NeedsConversion(vfps, sfps) == sfps # None /\ Abs(vfps - sfps[1]) > 500

-----------------------------------------------------------------------------
(* sync_service.py *)

(* detect_version_info: the source list in priority order.                  *)
Sources ==
    << [name |-> "BLURAY", patterns |-> {"BLURAY", "BLU-RAY", "BDRIP", "BRRIP", "BD"}],
       [name |-> "WEB-DL", patterns |-> {"WEB-DL", "WEBDL", "WEB.DL"}],
       [name |-> "WEBRip", patterns |-> {"WEBRIP", "WEB-RIP", "WEB RIP"}],
       [name |-> "WEB", patterns |-> {"WEB"}],
       [name |-> "HDTV", patterns |-> {"HDTV", "HD-TV"}],
       [name |-> "DVDRip", patterns |-> {"DVDRIP", "DVD-RIP"}],
       [name |-> "DVD", patterns |-> {"DVD"}],
       [name |-> "HDCAM", patterns |-> {"HDCAM", "HD-CAM"}],
       [name |-> "CAM", patterns |-> {"CAM", "CAMRIP", "HDTS", "TELESYNC", "TS"}] >>

detect_version_info(filename) ==
    LET hits == { i \in 1..Len(Sources) : Sources[i].patterns \cap filename.patterns # {} }
    IN  [source |-> IF hits = {} THEN ""
                    ELSE Sources[CHOOSE i \in hits : \A j \in hits : i <= j].name,
         resolution |-> filename.resolution,
         codec |-> filename.codec,
         year |-> filename.year,
         release_group |-> filename.group]

(* version_mismatch of sync_subtitles_with_log.                             *)
Mismatch(vinfo, sinfo) ==
    \/ (vinfo.source # "" /\ sinfo.source # "" /\ vinfo.source # sinfo.source)
    \/ (vinfo.release_group # "" /\ sinfo.release_group # ""
            /\ vinfo.release_group # sinfo.release_group)

(* File names as the parts between and including their separators; each   *)
(* part and each source pattern is also given letter by letter, which is    *)
(* what filename.upper() and `pattern in filename_upper` work on.           *)
Upper(c) ==
    CASE c = "a" -> "A"
      [] c = "b" -> "B"
      [] c = "c" -> "C"
      [] c = "d" -> "D"
      [] c = "e" -> "E"
      [] c = "f" -> "F"
      [] c = "g" -> "G"
      [] c = "h" -> "H"
      [] c = "i" -> "I"
      [] c = "j" -> "J"
      [] c = "k" -> "K"
      [] c = "l" -> "L"
      [] c = "m" -> "M"
      [] c = "n" -> "N"
      [] c = "o" -> "O"
      [] c = "p" -> "P"
      [] c = "q" -> "Q"
      [] c = "r" -> "R"
      [] c = "s" -> "S"
      [] c = "t" -> "T"
      [] c = "u" -> "U"
      [] c = "v" -> "V"
      [] c = "w" -> "W"
      [] c = "x" -> "X"
      [] c = "y" -> "Y"
      [] c = "z" -> "Z"
      [] OTHER -> c

UpperSeq(s) == [ i \in 1..Len(s) |-> Upper(s[i]) ]

TokenChars(t) ==
    CASE t = "Movie" -> << "M", "o", "v", "i", "e" >>
      [] t = "movie" -> << "m", "o", "v", "i", "e" >>
      [] t = "Robots" -> << "R", "o", "b", "o", "t", "s" >>
      [] t = "Abduction" -> << "A", "b", "d", "u", "c", "t", "i", "o", "n" >>
      [] t = "BluRay" -> << "B", "l", "u", "R", "a", "y" >>
      [] t = "bluray" -> << "b", "l", "u", "r", "a", "y" >>
      [] t = "WEB" -> << "W", "E", "B" >>
      [] t = "DL" -> << "D", "L" >>
      [] t = "WEBRip" -> << "W", "E", "B", "R", "i", "p" >>
      [] t = "HDTV" -> << "H", "D", "T", "V" >>
      [] t = "DVDRip" -> << "D", "V", "D", "R", "i", "p" >>
      [] t = "DVD" -> << "D", "V", "D" >>
      [] t = "HDCAM" -> << "H", "D", "C", "A", "M" >>
      [] t = "CAM" -> << "C", "A", "M" >>
      [] t = "GRP" -> << "G", "R", "P" >>
      [] t = "grp" -> << "g", "r", "p" >>
      [] t = "EVO" -> << "E", "V", "O" >>
      [] t = "mkv" -> << "m", "k", "v" >>
      [] t = "srt" -> << "s", "r", "t" >>
      [] t = "." -> << "." >>
      [] t = "-" -> << "-" >>

PatternChars(p) ==
    CASE p = "BLURAY" -> << "B", "L", "U", "R", "A", "Y" >>
      [] p = "BLU-RAY" -> << "B", "L", "U", "-", "R", "A", "Y" >>
      [] p = "BDRIP" -> << "B", "D", "R", "I", "P" >>
      [] p = "BRRIP" -> << "B", "R", "R", "I", "P" >>
      [] p = "BD" -> << "B", "D" >>
      [] p = "WEB-DL" -> << "W", "E", "B", "-", "D", "L" >>
      [] p = "WEBDL" -> << "W", "E", "B", "D", "L" >>
      [] p = "WEB.DL" -> << "W", "E", "B", ".", "D", "L" >>
      [] p = "WEBRIP" -> << "W", "E", "B", "R", "I", "P" >>
      [] p = "WEB-RIP" -> << "W", "E", "B", "-", "R", "I", "P" >>
      [] p = "WEB RIP" -> << "W", "E", "B", " ", "R", "I", "P" >>
      [] p = "WEB" -> << "W", "E", "B" >>
      [] p = "HDTV" -> << "H", "D", "T", "V" >>
      [] p = "HD-TV" -> << "H", "D", "-", "T", "V" >>
      [] p = "DVDRIP" -> << "D", "V", "D", "R", "I", "P" >>
      [] p = "DVD-RIP" -> << "D", "V", "D", "-", "R", "I", "P" >>
      [] p = "DVD" -> << "D", "V", "D" >>
      [] p = "HDCAM" -> << "H", "D", "C", "A", "M" >>
      [] p = "HD-CAM" -> << "H", "D", "-", "C", "A", "M" >>
      [] p = "CAM" -> << "C", "A", "M" >>
      [] p = "CAMRIP" -> << "C", "A", "M", "R", "I", "P" >>
      [] p = "HDTS" -> << "H", "D", "T", "S" >>
      [] p = "TELESYNC" -> << "T", "E", "L", "E", "S", "Y", "N", "C" >>
      [] p = "TS" -> << "T", "S" >>

RECURSIVE NameChars(_)
NameChars(tokens) ==
    IF tokens = << >> THEN << >>
    ELSE TokenChars(Head(tokens)) \o NameChars(Tail(tokens))

(* pattern in filename_upper: the pattern occurs somewhere in the name.     *)
Occurs(pat, s) ==
    \E i \in 1..(Len(s) - Len(pat) + 1) : SubSeq(s, i, i + Len(pat) - 1) = pat

AllPatterns == UNION { Sources[i].patterns : i \in 1..Len(Sources) }

(* re.search(r'-([A-Za-z0-9]+)(?:\.\w+)?$', filename): the part after a     *)
(* dash that ends the name or is followed only by an extension.             *)
GroupOf(tokens) ==
    LET n == Len(tokens)
    IN  IF n >= 2 /\ tokens[n - 1] = "-" /\ tokens[n] \notin {".", "-"} THEN tokens[n]
        ELSE IF n >= 4 /\ tokens[n - 3] = "-" /\ tokens[n - 2] \notin {".", "-"}
                /\ tokens[n - 1] = "." /\ tokens[n] \notin {".", "-"}
             THEN tokens[n - 2]
        ELSE ""

(* The name as detect_version_info reads it.                                *)
FileName(tokens) ==
    [text |-> tokens,
     patterns |-> { p \in AllPatterns : Occurs(PatternChars(p), UpperSeq(NameChars(tokens))) },
     resolution |-> "", codec |-> "", year |-> "",
     group |-> GroupOf(tokens)]

(* A line of the progress log: the message, and the text put into it.       *)
Line(msg) == [msg |-> msg, arg |-> ""]
LineWith(msg, arg) == [msg |-> msg, arg |-> arg]

(* A variant of the confidence ladder whose bounds are inclusive.            *)
ConfidenceInclusive(std_dev) ==
    IF std_dev.num <= 500 * 500 * std_dev.den THEN 95
    ELSE IF std_dev.num <= 1000 * 1000 * std_dev.den THEN 80
    ELSE IF std_dev.num <= 2000 * 2000 * std_dev.den THEN 60
    ELSE 40

(* The confidence ladder of sync_subtitles / sync_subtitles_with_log, in    *)
(* hundredths.                                                              *)
Confidence(std_dev) ==
    IF StdBelow(std_dev, 500) THEN 95
    ELSE IF StdBelow(std_dev, 1000) THEN 80
    ELSE IF StdBelow(std_dev, 2000) THEN 60
    ELSE 40

(* What log() writes at the start of sync_subtitles_with_log.               *)
HeaderLines(vname, sname, vinfo, sinfo) ==
    << Line("======"), Line("Iniciando sincronizacao"),
       LineWith("Video:", vname.text), LineWith("Legenda:", sname.text),
       Line("======"), Line(""),
       Line("Informacao de versao detectada:"), Line(""), Line("Video:") >>
    \o (IF vinfo.source # "" THEN << LineWith("Fonte:", vinfo.source) >> ELSE << >>)
    \o (IF vinfo.resolution # "" THEN << LineWith("Resolucao:", vinfo.resolution) >> ELSE << >>)
    \o (IF vinfo.codec # "" THEN << LineWith("Codec:", vinfo.codec) >> ELSE << >>)
    \o (IF vinfo.year # "" THEN << LineWith("Ano:", vinfo.year) >> ELSE << >>)
    \o (IF vinfo.release_group # "" THEN << LineWith("Grupo:", vinfo.release_group) >> ELSE << >>)
    \o << Line(""), Line("Legendas:") >>
    \o (IF sinfo.source # "" THEN << LineWith("Fonte:", sinfo.source) >> ELSE << >>)
    \o (IF sinfo.resolution # "" THEN << LineWith("Resolucao:", sinfo.resolution) >> ELSE << >>)
    \o (IF sinfo.year # "" THEN << LineWith("Ano:", sinfo.year) >> ELSE << >>)
    \o (IF sinfo.release_group # "" THEN << LineWith("Grupo:", sinfo.release_group) >> ELSE << >>)
    \o << Line("") >>
    \o (IF vinfo.source # "" /\ sinfo.source # "" /\ vinfo.source # sinfo.source
        THEN << Line("AVISO: Fontes diferentes!"), LineWith("Video | Legendas:", vinfo.source),
                Line("Isto pode causar problemas de sincronizacao") >>
        ELSE << >>)
    \o (IF vinfo.release_group # "" /\ sinfo.release_group # ""
            /\ vinfo.release_group # sinfo.release_group
        THEN << Line("AVISO: Grupos de release diferentes!"),
                LineWith("Video | Legendas:", vinfo.release_group) >>
        ELSE << >>)
    \o (IF ~Mismatch(vinfo, sinfo) THEN << Line("Versoes parecem compativeis") >> ELSE << >>)
    \o << Line(""), Line("Analisando framerates...") >>

(* What the except clause of sync_subtitles_with_log writes.                *)
HandlerLinesNoMarker(e) ==
    << Line(""), LineWith("Erro na sincronizacao:", e), Line("traceback") >>

HandlerLines(e) ==
    << Line(""), LineWith("Erro na sincronizacao:", e), Line("traceback"), Line("Complete") >>

(* 'Complete' in text: the texts of the model that contain the word.        *)
HasComplete(text) == text \in {"Complete", "Movie.Complete.Series.mkv"}

(* get_sync_log: the lines of the log file, and whether the last line       *)
(* contains "Complete".                                                     *)
get_sync_log(lines) ==
    [logs |-> lines,
     complete |-> Len(lines) > 0
                    /\ (HasComplete(lines[Len(lines)].msg) \/ HasComplete(lines[Len(lines)].arg))]

Logged == method = "sync_subtitles_with_log"

Failure(e) ==
    [success |-> FALSE, error |-> e, offset_detected |-> None, confidence |-> None,
     advisory |-> None]

NameChoices ==
    { [text |-> "Movie.2019.1080p.BluRay.x264-GRP.mkv", patterns |-> {"BLURAY"},
       resolution |-> "1080p", codec |-> "H.264", year |-> "2019", group |-> "GRP"],
      [text |-> "Movie.2019.WEB-DL.x264-EVO.srt", patterns |-> {"WEB-DL", "WEB"},
       resolution |-> "", codec |-> "H.264", year |-> "2019", group |-> "EVO"],
      [text |-> "movie.srt", patterns |-> {},
       resolution |-> "", codec |-> "", year |-> "", group |-> ""] }

VideoRates == {23976, 24500, 25000}

InitService ==
    /\ state = "S_BEGIN"
    /\ iteration = 0
    /\ total_correction = 0
    /\ passes = 0
    /\ method \in {"sync_subtitles", "sync_subtitles_with_log"}
    /\ \E k \in Shifts, layout \in Layouts, d \in Durations :
        /\ (method = "sync_subtitles_with_log" => (k = 0 /\ layout = "sparse"))
        /\ duration = d
        /\ speech = SpeechOf(layout, d)
        /\ shift = k
        /\ original = File(TrackOf(SpeechOf(layout, d), k))
    /\ hearing \in Hearings
    /\ video_name \in NameChoices
    /\ subtitle_name \in NameChoices
    /\ (method = "sync_subtitles" => video_name = subtitle_name)
    /\ (method = "sync_subtitles_with_log" => hearing = [ i \in 1..NumSamples |-> {1, 2} ])
    /\ work = NoFile
    /\ output = NoFile
    /\ point = 1
    /\ offsets = << >>
    /\ report = NoReport
    /\ failure = "none"
    /\ video_info = NoInfo
    /\ subtitle_info = NoInfo
    /\ version_mismatch = FALSE
    /\ video_fps = 0
    /\ srt_fps = None
    /\ log = << >>
    /\ pending = << >>
    /\ raised = ""
    /\ result = None
    /\ polled = None
    /\ num_samples = NumSamples
    /\ sample_points = PlannedPoints(duration, NumSamples)

loopVars == <<iteration, total_correction, passes, failure>>
envVars == <<duration, speech, shift, hearing, original, video_name, subtitle_name, method,
            num_samples, sample_points>>
infoVars == <<video_info, subtitle_info, version_mismatch>>
passVars == <<point, offsets, report>>

(* log(): one line is appended to the log file.                             *)
WriteLogLine ==
    /\ pending # << >>
    /\ log' = Append(log, Head(pending))
    /\ pending' = Tail(pending)
    /\ UNCHANGED <<state, loopVars, envVars, infoVars, passVars, work, output,
                   video_fps, srt_fps, raised, result, polled>>

(* The start of the method; sync_subtitles_with_log detects the version     *)
(* information of both names and logs it.                                   *)
SvcBegin ==
    /\ state = "S_BEGIN"
    /\ IF Logged
       THEN /\ video_info' = detect_version_info(video_name)
            /\ subtitle_info' = detect_version_info(subtitle_name)
            /\ version_mismatch' = Mismatch(detect_version_info(video_name),
                                            detect_version_info(subtitle_name))
            /\ pending' = HeaderLines(video_name, subtitle_name,
                                      detect_version_info(video_name),
                                      detect_version_info(subtitle_name))
       ELSE UNCHANGED <<infoVars, pending>>
    /\ state' = "S_FPS"
    /\ UNCHANGED <<loopVars, envVars, passVars, work, output, video_fps, srt_fps, log,
                   raised, result, polled>>

(* A variant of the framerate step that goes on only when the versions      *)
(* agree.                                                                   *)
SvcFrameratesGated ==
    /\ state = "S_FPS"
    /\ pending = << >>
    /\ ~version_mismatch
    /\ \E vfps \in VideoRates, inexact \in BOOLEAN :
        LET sfps == detect_srt_framerate(original.subs)
        IN  /\ video_fps' = vfps
            /\ srt_fps' = sfps
            /\ work' = IF NeedsConversion(vfps, sfps)
                       THEN File(convert_framerate(original.subs, sfps[1], vfps, inexact))
                       ELSE original
            /\ pending' = IF ~Logged THEN << >>
                          ELSE << Line("Video fps"),
                                  IF sfps # None THEN Line("Legenda fps")
                                  ELSE Line("Legenda: framerate nao detectado"),
                                  IF NeedsConversion(vfps, sfps) THEN Line("Framerate convertido")
                                  ELSE Line("Framerate correto"),
                                  Line(""), Line("Obtendo duracao do video...") >>
    /\ state' = "S_DURATION"
    /\ UNCHANGED <<loopVars, envVars, infoVars, passVars, output, log, raised, result, polled>>

(* get_video_framerate, detect_srt_framerate, then convert_framerate or     *)
(* shutil.copy into the work file.                                          *)
SvcFramerates ==
    /\ state = "S_FPS"
    /\ pending = << >>
    /\ \E vfps \in VideoRates, inexact \in BOOLEAN :
        LET sfps == detect_srt_framerate(original.subs)
        IN  /\ video_fps' = vfps
            /\ srt_fps' = sfps
            /\ work' = IF NeedsConversion(vfps, sfps)
                       THEN File(convert_framerate(original.subs, sfps[1], vfps, inexact))
                       ELSE original
            /\ pending' = IF ~Logged THEN << >>
                          ELSE << Line("Video fps"),
                                  IF sfps # None THEN Line("Legenda fps")
                                  ELSE Line("Legenda: framerate nao detectado"),
                                  IF NeedsConversion(vfps, sfps) THEN Line("Framerate convertido")
                                  ELSE Line("Framerate correto"),
                                  Line(""), Line("Obtendo duracao do video...") >>
    /\ state' = "S_DURATION"
    /\ UNCHANGED <<loopVars, envVars, infoVars, passVars, output, log, raised, result, polled>>

(* get_video_duration *)
SvcDuration ==
    /\ state = "S_DURATION"
    /\ pending = << >>
    /\ pending' = IF ~Logged THEN << >>
                  ELSE << Line("Duracao"), Line(""), Line("Detectando idioma do audio..."),
                          Line("Extraindo amostra de audio (30s)...") >>
    /\ state' = "S_SAMPLE"
    /\ UNCHANGED <<loopVars, envVars, infoVars, passVars, work, output, video_fps, srt_fps,
                   log, raised, result, polled>>

(* The 30 s sample for language detection is extracted.                     *)
SvcExtractSample ==
    /\ state = "S_SAMPLE"
    /\ pending = << >>
    /\ pending' = IF ~Logged THEN << >> ELSE << Line("Transcrevendo amostra...") >>
    /\ state' = "S_LANGUAGE"
    /\ UNCHANGED <<loopVars, envVars, infoVars, passVars, work, output, video_fps, srt_fps,
                   log, raised, result, polled>>

(* The sample is transcribed and the language read off; the sample points   *)
(* are announced.  detect_audio_language (sync_subtitles) catches every     *)
(* exception and answers 'en'.                                              *)
SvcDetectLanguage ==
    /\ state = "S_LANGUAGE"
    /\ pending = << >>
    /\ pending' = IF ~Logged THEN << >>
                  ELSE << Line("Idioma detectado"), Line(""), Line("Iniciando analise..."),
                          Line("Este processo pode demorar 5-10 minutos..."), Line(""),
                          Line("Pontos de amostragem selecionados:") >>
                       \o [ i \in 1..NumSamples |-> Line("Ponto") ]
                       \o << Line(""), Line("Extraindo e transcrevendo..."),
                             Line("Comparando transcricoes..."), Line("") >>
    /\ state' = "S_CALL"
    /\ UNCHANGED <<loopVars, envVars, infoVars, passVars, work, output, video_fps, srt_fps,
                   log, raised, result, polled>>

(* sync_subtitles calls analyze_sync(work_file, video_path, duration,       *)
(* num_samples=5, language=language): the pass begins.                      *)
SvcCallAnalyze ==
    /\ state = "S_CALL"
    /\ ~Logged
    /\ state' = "ANALYZING"
    /\ passes' = 1
    /\ point' = 1
    /\ offsets' = << >>
    /\ UNCHANGED <<iteration, total_correction, failure, envVars, infoVars, report, work,
                   output, video_fps, srt_fps, log, pending, raised, result, polled>>

(* sync_subtitles_with_log calls analyze_sync(..., gcs_video_path=...);     *)
(* analyze_sync has no such parameter: the call raises TypeError.           *)
SvcCallAnalyzeLogged ==
    /\ state = "S_CALL"
    /\ Logged
    /\ pending = << >>
    /\ raised' = "TypeError"
    /\ state' = "S_EXCEPT"
    /\ UNCHANGED <<loopVars, envVars, infoVars, passVars, work, output, video_fps, srt_fps,
                   log, pending, result, polled>>

(* A collaborator raises inside the try block: ffprobe or pysrt.open while  *)
(* the framerates are read, ffprobe for the duration, ffmpeg or the         *)
(* transcriber for the language sample (sync_subtitles_with_log only),      *)
(* ffmpeg or the transcriber at a sample point, pysrt while the result is   *)
(* written.                                                                 *)
SvcRaise ==
    /\ pending = << >>
    /\ \/ state = "S_FPS" /\ raised' \in {"ProbeError", "SubtitleUnreadable"}
       \/ state = "S_DURATION" /\ raised' = "ProbeError"
       \/ state \in {"S_SAMPLE", "S_LANGUAGE"} /\ Logged /\ raised' = "ExtractionError"
       \/ state = "ANALYZING" /\ ~Logged /\ method # "main" /\ point <= NumSamples
            /\ raised' = "ExtractionError"
       \/ state = "S_APPLY" /\ raised' = "SerializationError"
    /\ state' = "S_EXCEPT"
    /\ UNCHANGED <<loopVars, envVars, infoVars, passVars, work, output, video_fps, srt_fps,
                   log, pending, result, polled>>

(* analyze_sync returns (sync_utils.py: no quality label).                  *)
SvcAggregate ==
    /\ method = "sync_subtitles"
    /\ state = "ANALYZING"
    /\ point = NumSamples + 1
    /\ report' = [Aggregated(offsets) EXCEPT !.quality = "-"]
    /\ state' = "S_DECIDING"
    /\ UNCHANGED <<loopVars, envVars, infoVars, point, offsets, work, output, video_fps,
                   srt_fps, log, pending, raised, result, polled>>

(* offsets_list is None: the failure dictionary is returned.                *)
SvcReturnInsufficient ==
    /\ state = "S_DECIDING"
    /\ report.offsets = None
    /\ result' = Some(Failure("Failed to calculate synchronization offset"))
    /\ state' = "S_RETURNED"
    /\ UNCHANGED <<loopVars, envVars, infoVars, passVars, work, output, video_fps, srt_fps,
                   log, pending, raised, polled>>

SvcDecideApply ==
    /\ state = "S_DECIDING"
    /\ report.offsets # None
    /\ state' = "S_APPLY"
    /\ UNCHANGED <<loopVars, envVars, infoVars, passVars, work, output, video_fps, srt_fps,
                   log, pending, raised, result, polled>>

(* apply_offset(work_file, avg_offset, output_path); the success            *)
(* dictionary is returned.                                                  *)
SvcApplyAndReturn ==
    /\ state = "S_APPLY"
    /\ output' = File(apply_offset(work.subs, report.avg_offset[1]))
    /\ result' = Some([success |-> TRUE, error |-> "",
                       offset_detected |-> report.avg_offset,
                       confidence |-> Some(Confidence(report.std_dev[1])),
                       advisory |-> None])
    /\ state' = "S_RETURNED"
    /\ UNCHANGED <<loopVars, envVars, infoVars, passVars, work, video_fps, srt_fps,
                   log, pending, raised, polled>>

(* except Exception as e: the error is logged, then "Complete".             *)
SvcHandle ==
    /\ state = "S_EXCEPT"
    /\ pending' = IF Logged THEN HandlerLines(raised) ELSE << >>
    /\ state' = "S_RETURN"
    /\ UNCHANGED <<loopVars, envVars, infoVars, passVars, work, output, video_fps, srt_fps,
                   log, raised, result, polled>>

(* return {'success': False, 'error': str(e)}                               *)
SvcReturnError ==
    /\ state = "S_RETURN"
    /\ pending = << >>
    /\ result' = Some(Failure(raised))
    /\ state' = "S_RETURNED"
    /\ UNCHANGED <<loopVars, envVars, infoVars, passVars, work, output, video_fps, srt_fps,
                   log, pending, raised, polled>>

(* GET /sync-log/<filename> *)
PollLog ==
    /\ Logged
    /\ polled' = Some(get_sync_log(log))
    /\ UNCHANGED <<state, loopVars, envVars, infoVars, passVars, work, output, video_fps,
                   srt_fps, log, pending, raised, result>>

NextService ==
    \/ WriteLogLine
    \/ SvcBegin
    \/ SvcFramerates
    \/ SvcDuration
    \/ SvcExtractSample
    \/ SvcDetectLanguage
    \/ SvcCallAnalyze
    \/ SvcCallAnalyzeLogged
    \/ SvcRaise
    \/ AnalyzePoint
    \/ SvcAggregate
    \/ SvcReturnInsufficient
    \/ SvcDecideApply
    \/ SvcApplyAndReturn
    \/ SvcHandle
    \/ SvcReturnError
    \/ PollLog

SpecService == InitService /\ [][NextService]_vars

-----------------------------------------------------------------------------
(* The pure functions, each called on its own.                              *)

idleLoop ==
    /\ iteration = 0
    /\ total_correction = 0
    /\ passes = 0
    /\ failure = "none"
    /\ duration = 0
    /\ shift = 0
    /\ hearing = [ i \in 1..NumSamples |-> {} ]
    /\ num_samples = NumSamples
    /\ sample_points = << >>

idleService ==
    /\ video_name = NoName
    /\ subtitle_name = NoName
    /\ video_info = NoInfo
    /\ subtitle_info = NoInfo
    /\ version_mismatch = FALSE
    /\ log = << >>
    /\ pending = << >>
    /\ raised = ""
    /\ result = None
    /\ polled = None

(* convert_framerate, there and back.                                       *)
MaxTs == 30
EntryLengthMs == 1500
Rates == { CommonFps[i] : i \in 1..Len(CommonFps) }

InitFramerate ==
    /\ state = "F_CALL"
    /\ method = "convert_framerate"
    /\ \E t \in 0..MaxTs :
          original = File(<< [start |-> t, end |-> t + EntryLengthMs] >>)
    /\ srt_fps \in { Some(r) : r \in Rates }
    /\ video_fps \in Rates
    /\ work = NoFile
    /\ output = NoFile
    /\ speech = << >>
    /\ point = 1
    /\ offsets = << >>
    /\ report = NoReport
    /\ idleLoop
    /\ idleService

fileVars == <<original, work, output>>
restVars == <<loopVars, duration, shift, hearing, video_name, subtitle_name, method,
              infoVars, log, pending, raised, result, polled, num_samples, sample_points>>

(* convert_framerate(subtitle_path, srt_fps, video_fps, work_file)          *)
ConvertThere ==
    /\ state = "F_CALL"
    /\ \E inexact \in BOOLEAN :
          work' = File(convert_framerate(original.subs, srt_fps[1], video_fps, inexact))
    /\ state' = "F_THERE"
    /\ UNCHANGED <<original, output, speech, passVars, video_fps, srt_fps, restVars>>

(* convert_framerate(work_file, video_fps, srt_fps, output)                 *)
ConvertBack ==
    /\ state = "F_THERE"
    /\ \E inexact \in BOOLEAN :
          output' = File(convert_framerate(work.subs, video_fps, srt_fps[1], inexact))
    /\ state' = "F_BACK"
    /\ UNCHANGED <<original, work, speech, passVars, video_fps, srt_fps, restVars>>

NextFramerate ==
    \/ ConvertThere
    \/ ConvertBack

SpecFramerate == InitFramerate /\ [][NextFramerate]_vars

(* The quality ladders, on means and deviations (ms) around the thresholds. *)
QualityMeans ==
    { 0, 299, 300, 301, 799, 800, 801, 1999, 2000, 2001,
      -299, -300, -301, -799, -800, -801, -1999, -2000, -2001 }
QualityDevs == { 0, 499, 500, 501, 999, 1000, 1001, 1999, 2000, 2001 }

Deviation(s) == [num |-> s * s, den |-> 1]

InitQuality ==
    /\ state = "Q_CALL"
    /\ method \in {"analyze_sync_quality", "calculate_sync_quality"}
    /\ \E m \in QualityMeans, s \in QualityDevs :
          report = [offsets |-> None, avg_offset |-> Some(m * U),
                    std_dev |-> Some(Deviation(s)), quality |-> "-"]
    /\ original = NoFile
    /\ work = NoFile
    /\ output = NoFile
    /\ srt_fps = None
    /\ video_fps = 0
    /\ speech = << >>
    /\ point = 1
    /\ offsets = << >>
    /\ idleLoop
    /\ idleService

(* The ladder at the end of analyze_sync_quality.                           *)
LabelInLoop ==
    /\ state = "Q_CALL"
    /\ method = "analyze_sync_quality"
    /\ report' = [report EXCEPT !.quality = QualityLabel(report.avg_offset[1], report.std_dev[1])]
    /\ state' = "Q_DONE"
    /\ UNCHANGED <<fileVars, speech, point, offsets, video_fps, srt_fps, restVars>>

(* utils.calculate_sync_quality(offset, std_dev)                            *)
LabelInUtils ==
    /\ state = "Q_CALL"
    /\ method = "calculate_sync_quality"
    /\ report' = [report EXCEPT
                    !.quality = calculate_sync_quality(report.avg_offset[1], report.std_dev[1])]
    /\ state' = "Q_DONE"
    /\ UNCHANGED <<fileVars, speech, point, offsets, video_fps, srt_fps, restVars>>

NextQuality ==
    \/ LabelInLoop
    \/ LabelInUtils

SpecQuality == InitQuality /\ [][NextQuality]_vars

(* The confidence ladder of the two service methods, on the same means and  *)
(* deviations.                                                              *)
InitConfidence ==
    /\ state = "K_CALL"
    /\ method \in {"sync_subtitles", "sync_subtitles_with_log"}
    /\ \E m \in QualityMeans, s \in QualityDevs :
          report = [offsets |-> None, avg_offset |-> Some(m * U),
                    std_dev |-> Some(Deviation(s)), quality |-> "-"]
    /\ original = NoFile
    /\ work = NoFile
    /\ output = NoFile
    /\ srt_fps = None
    /\ video_fps = 0
    /\ speech = << >>
    /\ point = 1
    /\ offsets = << >>
    /\ idleLoop
    /\ idleService

(* if std_dev < 0.5 ... else confidence = 0.40, and the dictionary that     *)
(* carries it.                                                              *)
ConfidenceInService ==
    /\ state = "K_CALL"
    /\ result' = Some([success |-> TRUE, error |-> "",
                       offset_detected |-> report.avg_offset,
                       confidence |-> Some(Confidence(report.std_dev[1])),
                       advisory |-> None])
    /\ state' = "K_DONE"
    /\ UNCHANGED <<fileVars, speech, point, offsets, video_fps, srt_fps, report,
                   iteration, total_correction, duration, shift, hearing, failure, passes,
                   method, video_name, subtitle_name, video_info, subtitle_info,
                   version_mismatch, log, pending, raised, polled, num_samples,
                   sample_points>>

NextConfidence ==
    \/ ConfidenceInService

SpecConfidence == InitConfidence /\ [][NextConfidence]_vars

(* compute_offset_for_segment on a window whose segments each match one     *)
(* entry, before and after one entry is moved.                              *)
MinMatches == 5
MaxMatches == 6
SegmentGapMs == 10000
DeltaValues == { 0, 100, 200, 300, 1000 }
MovedValues == DeltaValues \cup { -4000, 4000 }

(* The track whose entry i starts d[i] before segment i.                    *)
TrackWithDeltas(d) ==
    [ i \in 1..Len(d) |-> [start |-> SegmentGapMs * i - d[i],
                           end |-> SegmentGapMs * i - d[i] + EntryLengthMs] ]

InitMedian ==
    /\ state = "M_CALL"
    /\ method = "compute_offset_for_segment"
    /\ \E n \in MinMatches..MaxMatches :
        \E d \in { e \in [1..n -> DeltaValues] : \A i \in 1..(n - 1) : e[i] <= e[i + 1] } :
          \E j \in 1..n, v \in MovedValues :
            /\ v # d[j]
            /\ speech = [ i \in 1..n |-> SegmentGapMs * i ]
            /\ original = File(TrackWithDeltas(d))
            /\ work = File(TrackWithDeltas([d EXCEPT ![j] = v]))
            /\ point = j
    /\ output = NoFile
    /\ srt_fps = None
    /\ video_fps = 0
    /\ offsets = << >>
    /\ report = NoReport
    /\ idleLoop
    /\ idleService

(* compute_offset_for_segment(original, segments, 0)                        *)
MedianOfOriginal ==
    /\ state = "M_CALL"
    /\ offsets' = << compute_offset_for_segment(original.subs, speech, 0) >>
    /\ state' = "M_ONE"
    /\ UNCHANGED <<fileVars, speech, point, report, video_fps, srt_fps, restVars>>

(* compute_offset_for_segment(moved, segments, 0)                           *)
MedianOfMoved ==
    /\ state = "M_ONE"
    /\ offsets' = Append(offsets, compute_offset_for_segment(work.subs, speech, 0))
    /\ state' = "M_DONE"
    /\ UNCHANGED <<fileVars, speech, point, report, video_fps, srt_fps, restVars>>

NextMedian ==
    \/ MedianOfOriginal
    \/ MedianOfMoved

SpecMedian == InitMedian /\ [][NextMedian]_vars

(* The sample planner at the head of analyze_sync / analyze_sync_quality,   *)
(* for durations of a few milliseconds, for one hour, and for 1 to          *)
(* MaxSamples samples.                                                      *)
MaxDurationMs == 40
MaxSamples == 8
OneHourMs == 3600 * 1000

InitPlanner ==
    /\ state = "P_CALL"
    /\ method = "analyze_sync"
    /\ duration \in (1..MaxDurationMs) \cup {OneHourMs}
    /\ num_samples \in 1..MaxSamples
    /\ sample_points = << >>
    /\ iteration = 0
    /\ total_correction = 0
    /\ passes = 0
    /\ failure = "none"
    /\ shift = 0
    /\ hearing = [ i \in 1..NumSamples |-> {} ]
    /\ original = NoFile
    /\ work = NoFile
    /\ output = NoFile
    /\ srt_fps = None
    /\ video_fps = 0
    /\ speech = << >>
    /\ point = 1
    /\ offsets = << >>
    /\ report = NoReport
    /\ idleService

(* step = video_duration / (num_samples + 1); sample_points = [step * i]    *)
PlanSamples ==
    /\ state = "P_CALL"
    /\ sample_points' = PlannedPoints(duration, num_samples)
    /\ state' = "P_DONE"
    /\ UNCHANGED <<fileVars, speech, passVars, video_fps, srt_fps, loopVars, duration, shift,
                   hearing, video_name, subtitle_name, method, infoVars, log, pending,
                   raised, result, polled, num_samples>>

NextPlanner == PlanSamples

SpecPlanner == InitPlanner /\ [][NextPlanner]_vars

(* One sample point of analyze_sync: compute_offset_for_segment on the      *)
(* segments of a window, and the append that follows it.  The window has    *)
(* up to MaxHeard segments, SegmentStepMs apart; the track has one entry    *)
(* per segment, d1 early for the first `split` entries and d2 early for     *)
(* the others, or no entry near the window at all.                          *)
MaxHeard == 17
SegmentStepMs == 2500
HeardCounts == {0, 1, 3, MaxHeard - 3, MaxHeard - 2, MaxHeard - 1, MaxHeard}
EntryDeltas == { -300, 0, 700 }
Splits == {0, 7}

WindowSegments(n) == [ i \in 1..n |-> SegmentStepMs * i ]

WindowTrack(n, start_time, d1, d2, split) ==
    [ j \in 1..n |->
        LET d == IF j <= split THEN d1 ELSE d2
        IN  [start |-> start_time + SegmentStepMs * j - d,
             end |-> start_time + SegmentStepMs * j - d + EntryLengthMs] ]

InitEstimator ==
    /\ state = "E_CALL"
    /\ method = "analyze_sync"
    /\ duration = OneHourMs
    /\ num_samples = NumSamples
    /\ sample_points = PlannedPoints(OneHourMs, NumSamples)
    /\ point \in {1, 3}
    /\ \E n \in HeardCounts, d1 \in EntryDeltas, d2 \in EntryDeltas, split \in Splits,
          near \in BOOLEAN :
          /\ speech = WindowSegments(n)
          /\ work = File(IF near
                         THEN WindowTrack(n, SamplePoint(OneHourMs, point), d1, d2, split)
                         ELSE << [start |-> 0, end |-> EntryLengthMs] >>)
          /\ original = work
    /\ offsets \in { << >>, << 600 >> }
    /\ output = NoFile
    /\ srt_fps = None
    /\ video_fps = 0
    /\ report = NoReport
    /\ iteration = 0
    /\ total_correction = 0
    /\ passes = 0
    /\ failure = "none"
    /\ shift = 0
    /\ hearing = [ i \in 1..NumSamples |-> {} ]
    /\ idleService

(* offset = compute_offset_for_segment(srt_path, segments, start_time);     *)
(* if offset is not None: offsets.append(offset)                            *)
EstimatePoint ==
    /\ state = "E_CALL"
    /\ offsets' = offsets \o compute_offset_for_segment(work.subs, speech,
                                                        SamplePoint(duration, point))
    /\ point' = point + 1
    /\ state' = "E_DONE"
    /\ UNCHANGED <<fileVars, speech, report, video_fps, srt_fps, restVars>>

NextEstimator == EstimatePoint

SpecEstimator == InitEstimator /\ [][NextEstimator]_vars

(* The framerate step of both service methods on tracks long enough for    *)
(* detect_srt_framerate: LongTrackLen entries on the frame grid of 25 fps   *)
(* or of 50 fps, and a track one entry short of the 100 the detection asks  *)
(* for.                                                                     *)
LongTrackLen == 100

GridTrack(n, fps) ==
    [ j \in 1..n |-> [start |-> (j * 1000000) \div fps,
                      end |-> (j * 1000000) \div fps + EntryLengthMs] ]

(* Entries 10 ms off the 25 fps grid: no millisecond field fits 25 or 50    *)
(* fps and a fifth of them fit 29.97 fps.                                   *)
OffGridTrack(n) ==
    [ j \in 1..n |-> [start |-> 10 + 40 * j, end |-> 10 + 40 * j + EntryLengthMs] ]

(* Entries whose millisecond fields are 5..16: they fit none of common_fps. *)
DenseTrack(n) ==
    [ j \in 1..n |-> [start |-> 1000 * ((j - 1) \div 12) + 5 + ((j - 1) % 12),
                      end |-> 1000 * ((j - 1) \div 12) + 5 + ((j - 1) % 12) + EntryLengthMs] ]

LongTracks ==
    { GridTrack(LongTrackLen, 25000), GridTrack(LongTrackLen, 50000),
      GridTrack(LongTrackLen - 1, 25000),
      OffGridTrack(LongTrackLen), DenseTrack(LongTrackLen) }

InitConversion ==
    /\ state = "S_BEGIN"
    /\ method \in {"sync_subtitles", "sync_subtitles_with_log"}
    /\ original \in { File(t) : t \in LongTracks }
    /\ video_name \in NameChoices
    /\ subtitle_name \in NameChoices
    /\ (method = "sync_subtitles" => video_name = subtitle_name)
    /\ duration = OneHourMs
    /\ speech = << >>
    /\ shift = 0
    /\ hearing = [ i \in 1..NumSamples |-> {1, 2} ]
    /\ iteration = 0
    /\ total_correction = 0
    /\ passes = 0
    /\ failure = "none"
    /\ work = NoFile
    /\ output = NoFile
    /\ point = 1
    /\ offsets = << >>
    /\ report = NoReport
    /\ video_info = NoInfo
    /\ subtitle_info = NoInfo
    /\ version_mismatch = FALSE
    /\ video_fps = 0
    /\ srt_fps = None
    /\ log = << >>
    /\ pending = << >>
    /\ raised = ""
    /\ result = None
    /\ polled = None
    /\ num_samples = NumSamples
    /\ sample_points = PlannedPoints(OneHourMs, NumSamples)

NextConversion ==
    \/ SvcBegin
    \/ WriteLogLine
    \/ SvcFramerates

SpecConversion == InitConversion /\ [][NextConversion]_vars

(* The version information of sync_subtitles_with_log on names put          *)
(* together from a title, a source, a release group and an extension.       *)
SourceParts ==
    { << >>, << ".", "BluRay" >>, << ".", "bluray" >>, << ".", "WEB", "-", "DL" >>,
      << ".", "WEBRip" >>, << ".", "HDTV" >>, << ".", "DVDRip" >>, << ".", "DVD" >>,
      << ".", "HDCAM" >>, << ".", "CAM" >> }
GroupParts == { << >>, << "-", "GRP" >>, << "-", "grp" >>, << "-", "EVO" >> }

VideoNames ==
    { FileName(<< "Movie" >> \o s \o g \o << ".", "mkv" >>) :
        s \in { << >>, << ".", "BluRay" >>, << ".", "WEB", "-", "DL" >>, << ".", "HDTV" >> },
        g \in GroupParts }
SubtitleNames ==
    { FileName(<< t >> \o s \o g \o << ".", "srt" >>) :
        t \in {"movie", "Robots", "Abduction"}, s \in SourceParts, g \in GroupParts }

InitVersion ==
    /\ state = "S_BEGIN"
    /\ method = "sync_subtitles_with_log"
    /\ video_name \in VideoNames
    /\ subtitle_name \in SubtitleNames
    /\ original = File(TrackOf(SpeechOf("sparse", OneHourMs), 0))
    /\ duration = OneHourMs
    /\ speech = SpeechOf("sparse", OneHourMs)
    /\ shift = 0
    /\ hearing = [ i \in 1..NumSamples |-> {1, 2} ]
    /\ iteration = 0
    /\ total_correction = 0
    /\ passes = 0
    /\ failure = "none"
    /\ work = NoFile
    /\ output = NoFile
    /\ point = 1
    /\ offsets = << >>
    /\ report = NoReport
    /\ video_info = NoInfo
    /\ subtitle_info = NoInfo
    /\ version_mismatch = FALSE
    /\ video_fps = 0
    /\ srt_fps = None
    /\ log = << >>
    /\ pending = << >>
    /\ raised = ""
    /\ result = None
    /\ polled = None
    /\ num_samples = NumSamples
    /\ sample_points = PlannedPoints(OneHourMs, NumSamples)

NextVersion ==
    \/ SvcBegin
    \/ WriteLogLine

SpecVersion == InitVersion /\ [][NextVersion]_vars

(* A logged run and its pollers, for a video whose name does or does not    *)
(* contain the word of the completion marker.                               *)
CompleteName ==
    [text |-> "Movie.Complete.Series.mkv", patterns |-> {},
     resolution |-> "", codec |-> "", year |-> "", group |-> ""]

InitPolling ==
    /\ state = "S_BEGIN"
    /\ method = "sync_subtitles_with_log"
    /\ video_name \in NameChoices \cup {CompleteName}
    /\ subtitle_name \in NameChoices
    /\ original = File(TrackOf(SpeechOf("sparse", OneHourMs), 0))
    /\ duration = OneHourMs
    /\ speech = SpeechOf("sparse", OneHourMs)
    /\ shift = 0
    /\ hearing = [ i \in 1..NumSamples |-> {1, 2} ]
    /\ iteration = 0
    /\ total_correction = 0
    /\ passes = 0
    /\ failure = "none"
    /\ work = NoFile
    /\ output = NoFile
    /\ point = 1
    /\ offsets = << >>
    /\ report = NoReport
    /\ video_info = NoInfo
    /\ subtitle_info = NoInfo
    /\ version_mismatch = FALSE
    /\ video_fps = 0
    /\ srt_fps = None
    /\ log = << >>
    /\ pending = << >>
    /\ raised = ""
    /\ result = None
    /\ polled = None
    /\ num_samples = NumSamples
    /\ sample_points = PlannedPoints(OneHourMs, NumSamples)

NextPolling ==
    \/ WriteLogLine
    \/ SvcBegin
    \/ SvcFramerates
    \/ SvcDuration
    \/ SvcExtractSample
    \/ SvcDetectLanguage
    \/ SvcCallAnalyzeLogged
    \/ SvcHandle
    \/ SvcReturnError
    \/ PollLog

SpecPolling == InitPolling /\ [][NextPolling]_vars

Terminal == {"CONVERGED", "EXHAUSTED", "FAILED"}

-----------------------------------------------------------------------------
(* C1: for a track displaced by one constant k, every analysis pass that    *)
(* gets offsets from at least 3 sample points reports a mean that, added    *)
(* to the corrections already applied, is within 0.1 s of k, and the total  *)
(* correction applied to the written output is within 0.1 s of k.           *)
C1_ShiftRecovered ==
    /\ (state = "DECIDING" /\ report.offsets # None)
          => Abs(total_correction + report.avg_offset[1] - shift * U) <= 100 * U
    /\ output.exists => Abs(total_correction - shift * U) <= 100 * U

(* C2: a pass that returns no offsets, the first or a later one, ends the   *)
(* run in FAILED with no output file and no work file.                      *)
C2_InsufficientFails ==
    /\ (report.offsets = None /\ report # NoReport)
          => /\ state \in {"DECIDING", "FAILED"}
             /\ ~output.exists
    /\ failure = "insufficient"
          => /\ state = "FAILED"
             /\ report.offsets = None
             /\ ~output.exists
             /\ ~work.exists

C2_Witness ==
    /\ failure = "insufficient"
    /\ passes >= 2
    /\ total_correction # 0

(* A measure of the work main() has left: it is never negative.            *)
Rank ==
    CASE state = "START" -> 10 * MaxIterations + 10
      [] state = "ANALYZING" -> 10 * (MaxIterations - iteration) + 4 + (NumSamples + 1 - point)
      [] state = "DECIDING" -> 10 * (MaxIterations - iteration) + 3
      [] state = "CORRECTING" -> 10 * (MaxIterations - iteration) + 2
      [] state \in {"CONVERGED", "EXHAUSTED"} -> IF work.exists THEN 1 ELSE 0
      [] OTHER -> 0

(* Some step of main() other than the analysis of a sample point.           *)
CanStep ==
    \/ CopyToWork
    \/ PointRaises
    \/ Aggregate
    \/ AbortInsufficient
    \/ StopPerfect
    \/ StopNegligible
    \/ BeginCorrection
    \/ ApplyCorrection

(* C3: the loop runs at most maxIterations analysis passes; every step      *)
(* brings the run closer to its end (the measure decreases and is bounded   *)
(* below), a run can stop only in CONVERGED, EXHAUSTED or FAILED, and a     *)
(* terminal state is never left.                                            *)
C3_Terminates ==
    /\ [](/\ passes <= MaxIterations
          /\ iteration <= MaxIterations
          /\ Rank >= 0
          /\ (state \notin Terminal => ENABLED CanStep))
    /\ [][/\ Rank' < Rank
          /\ (state \in Terminal) => (state' = state)]_vars

C3_Witness ==
    /\ state = "EXHAUSTED"
    /\ passes = MaxIterations
    /\ output.exists

(* The sum of (xs[i] - xs[j])^2 over all pairs i < j.                        *)
PairSquares(xs) ==
    LET pairs == { p \in (1..Len(xs)) \X (1..Len(xs)) : p[1] < p[2] }
        RECURSIVE Sum(_)
        Sum(ps) == IF ps = {} THEN 0
                   ELSE LET p == CHOOSE q \in ps : TRUE
                        IN  (xs[p[1]] - xs[p[2]]) * (xs[p[1]] - xs[p[2]]) + Sum(ps \ {p})
    IN  Sum(pairs)

Labels == {"PERFEITO", "BOM", "ACEITAVEL", "RUIM"}

(* C4 (as stated): a pass returns no mean, no stdev and no quality label    *)
(* exactly when fewer than 3 sample points produced an offset.              *)
C4_AsStated ==
    state = "DECIDING" =>
        /\ (report.offsets = None) <=> (Len(offsets) < MinValidPoints)
        /\ report.offsets = None =>
              /\ report.avg_offset = None
              /\ report.std_dev = None
              /\ report.quality \notin Labels

(* C4 (amended): a pass returns no offsets, no mean and no stdev (and the   *)
(* label RUIM) exactly when fewer than 3 sample points produced an offset;  *)
(* otherwise it returns the offsets of exactly the valid points, their      *)
(* mean and their sample variance, with 3 <= validPoints <= totalPoints.    *)
C4_Aggregator ==
    state = "DECIDING" =>
        /\ (report.offsets = None) <=> (Len(offsets) < MinValidPoints)
        /\ report.offsets = None =>
              /\ report.avg_offset = None
              /\ report.std_dev = None
              /\ report.quality = "RUIM"
        /\ report.offsets # None =>
              LET xs == report.offsets[1]
                  n == Len(xs)
              IN  /\ xs = offsets
                  /\ MinValidPoints <= n /\ n <= NumSamples
                  /\ report.avg_offset # None /\ report.std_dev # None
                  /\ 2 * n * report.avg_offset[1] = U * SumSeq(xs)
                  /\ report.std_dev[1].num = PairSquares(xs)
                  /\ report.std_dev[1].den = 4 * n * (n - 1)
                  /\ report.quality \in Labels

C4_Witness ==
    /\ state = "DECIDING"
    /\ report.offsets # None
    /\ Len(report.offsets[1]) = MinValidPoints
    /\ report.std_dev[1].num > 0

(* C5: an extraction or transcription error at a sample point never ends    *)
(* the run: the run fails only for fewer than 3 valid points.               *)
C5_PointErrorContained ==
    state = "FAILED" => failure = "insufficient"


(* A measure of what a logged run has left to do.                           *)
SvcRank ==
    100 * (CASE state = "S_BEGIN" -> 8
             [] state = "S_FPS" -> 7
             [] state = "S_DURATION" -> 6
             [] state = "S_SAMPLE" -> 5
             [] state = "S_LANGUAGE" -> 4
             [] state = "S_CALL" -> 3
             [] state = "S_EXCEPT" -> 2
             [] state = "S_RETURN" -> 1
             [] OTHER -> 0)
    + Len(pending)

(* A step of the logged run itself (not of a poller).                       *)
SvcStep ==
    \/ WriteLogLine
    \/ SvcBegin
    \/ SvcFramerates
    \/ SvcDuration
    \/ SvcExtractSample
    \/ SvcDetectLanguage
    \/ SvcCallAnalyzeLogged
    \/ SvcHandle
    \/ SvcReturnError

C10_FailureCarriesAdvisory ==
    (state = "S_RETURNED" /\ result # None /\ ~result[1].success)
        => (result[1].error # "" /\ result[1].advisory # None)


(* C7: after convert_framerate a -> b and then b -> a every timestamp is    *)
(* within 1 ms of the original one.                                         *)
C7_RoundTrip ==
    state = "F_BACK" =>
        \A i \in 1..Len(original.subs) :
            /\ Abs(output.subs[i].start - original.subs[i].start) <= 1
            /\ Abs(output.subs[i].end - original.subs[i].end) <= 1

(* The order of the labels, either ladder's.                                *)
LabelRank(label) ==
    CASE label = "PERFEITO" -> 3
      [] label = "BOM" -> 2
      [] label \in {"ACEITAVEL", "MEDIO"} -> 1
      [] OTHER -> 0

LabelOf(m, avg_offset, std_dev) ==
    IF m = "analyze_sync_quality" THEN QualityLabel(avg_offset, std_dev)
    ELSE calculate_sync_quality(avg_offset, std_dev)

(* C8: a mean no larger in size together with a deviation no larger never   *)
(* gets a worse label, in either ladder.                                    *)
C8_Monotonic ==
    state = "Q_DONE" =>
        \A m \in QualityMeans, s \in QualityDevs :
            (Abs(m * U) <= Abs(report.avg_offset[1]) /\ s * s <= report.std_dev[1].num)
                => LabelRank(LabelOf(method, m * U, Deviation(s))) >= LabelRank(report.quality)

C8_Witness ==
    /\ state = "Q_DONE"
    /\ report.quality \in {"ACEITAVEL", "MEDIO"}
    /\ report.avg_offset[1] < 0
    /\ \E m \in QualityMeans, s \in QualityDevs :
          /\ Abs(m * U) <= Abs(report.avg_offset[1])
          /\ s * s <= report.std_dev[1].num
          /\ LabelOf(method, m * U, Deviation(s)) = "PERFEITO"

(* How far the moved entry is from where it was.                            *)
OutlierDistance == Abs(work.subs[point].start - original.subs[point].start)

(* C9 as stated: the median moves by less than outlierDistance/matchCount.  *)
C9_AsStated ==
    state = "M_DONE" =>
        Abs(offsets[2][1] - offsets[1][1]) * Len(speech) < 2 * OutlierDistance

(* C9: with 5 or more recorded deltas, moving one of them moves the median  *)
(* by at most outlierDistance (half of it for an even count), and the new   *)
(* median stays between the order statistics next to the old median,        *)
(* however far the delta was moved.                                         *)
C9_MedianBounded ==
    state = "M_DONE" =>
        LET n == Len(speech)
            t == SortedSeq(Deltas(original.subs, speech, 0))
            k == (n + 1) \div 2
        IN  /\ Len(t) = n
            /\ Len(Deltas(work.subs, speech, 0)) = n
            /\ offsets[1] # None /\ offsets[2] # None
            /\ Abs(offsets[2][1] - offsets[1][1])
                  <= (IF n % 2 = 1 THEN 2 * OutlierDistance ELSE OutlierDistance)
            /\ IF n % 2 = 1
               THEN /\ offsets[1][1] = 2 * t[k]
                    /\ 2 * t[k - 1] <= offsets[2][1]
                    /\ offsets[2][1] <= 2 * t[k + 1]
               ELSE /\ offsets[1][1] = t[k] + t[k + 1]
                    /\ t[k - 1] + t[k] <= offsets[2][1]
                    /\ offsets[2][1] <= t[k + 1] + t[k + 2]

C9_Witness ==
    /\ state = "M_DONE"
    /\ Len(speech) = MinMatches
    /\ OutlierDistance >= 3000
    /\ offsets[2][1] # offsets[1][1]
    /\ Abs(offsets[2][1] - offsets[1][1]) * Len(speech) >= 2 * OutlierDistance

(* The work files the framerate step can leave for the track and rates of   *)
(* this run; nothing in it is read from a name.                             *)
ExpectedWork ==
    IF NeedsConversion(video_fps, srt_fps)
    THEN { File(convert_framerate(original.subs, srt_fps[1], video_fps, inexact)) :
              inexact \in BOOLEAN }
    ELSE { original }

(* The errors the collaborators of a logged run can raise.                  *)
CollaboratorErrors == {"ProbeError", "SubtitleUnreadable", "ExtractionError"}

C12_PlannerInterior ==
    state = "P_DONE" =>
        /\ Len(sample_points) = num_samples
        /\ \A i \in 1..num_samples :
              /\ sample_points[i].den > 0
              /\ sample_points[i].num * (num_samples + 1) = i * duration * sample_points[i].den
              /\ 0 < sample_points[i].num
              /\ sample_points[i].num < duration * sample_points[i].den
        /\ \A i \in 1..(num_samples - 1) :
              sample_points[i].num * sample_points[i + 1].den
                  < sample_points[i + 1].num * sample_points[i].den
        /\ (duration = OneHourMs /\ num_samples = NumSamples =>
              [ i \in 1..num_samples |-> sample_points[i].num \div sample_points[i].den ]
                  = << 600000, 1200000, 1800000, 2400000, 3000000 >>)
        /\ (num_samples = NumSamples =>
              \A i \in 1..num_samples :
                  SamplePoint(duration, i) = sample_points[i].num \div sample_points[i].den)

C12_Witness ==
    /\ state = "P_DONE"
    /\ duration = OneHourMs
    /\ num_samples = NumSamples
    /\ Len(sample_points) = NumSamples

(* The table of the specification, in ms: the rank of the first row that    *)
(* matches (3 PERFECT, 2 GOOD, 1 ACCEPTABLE, 0 POOR).                       *)
TableRank(mean_ms, stdev_ms) ==
    IF Abs(mean_ms) < 300 /\ stdev_ms < 500 THEN 3
    ELSE IF Abs(mean_ms) < 800 /\ stdev_ms < 1000 THEN 2
    ELSE IF Abs(mean_ms) < 2000 /\ stdev_ms < 2000 THEN 1
    ELSE 0

(* C13: the label either ladder gives is the first matching row of the      *)
(* table, every bound strict, and it is one of the four labels.             *)
C13_FirstMatchingRow ==
    state = "Q_DONE" =>
        /\ report.quality \in (IF method = "analyze_sync_quality"
                               THEN {"PERFEITO", "BOM", "ACEITAVEL", "RUIM"}
                               ELSE {"PERFEITO", "BOM", "MEDIO", "FRACO"})
        /\ \E m \in QualityMeans, s \in QualityDevs :
              /\ report.avg_offset = Some(m * U)
              /\ report.std_dev = Some(Deviation(s))
              /\ LabelRank(report.quality) = TableRank(m, s)

C13_Witness ==
    /\ state = "Q_DONE"
    /\ report.avg_offset = Some(300 * U)
    /\ report.std_dev = Some(Deviation(0))
    /\ report.quality = "BOM"

(* The confidence column of the specification's table, in hundredths, by    *)
(* the rank of the row.                                                     *)
RowConfidence(rank) ==
    CASE rank = 3 -> 95
      [] rank = 2 -> 80
      [] rank = 1 -> 60
      [] OTHER -> 40

(* C14: the confidence of a returned report is that of the table row of     *)
(* the quality label of its mean and standard deviation.                    *)
C14_ConfidenceOfLabel ==
    (state = "S_RETURNED" /\ result # None /\ result[1].success) =>
        result[1].confidence
            = Some(RowConfidence(LabelRank(QualityLabel(report.avg_offset[1],
                                                        report.std_dev[1]))))

(* C15: a pass that is not PERFEITO and whose mean is at most 0.1 s in size *)
(* (0.1 s included) ends the loop as CONVERGED in the next step, whatever   *)
(* its deviation and label; from then on no shift is applied and no pass    *)
(* is run: the work file is only moved to the output.                       *)
C15_NegligibleWins ==
    /\ [][(/\ method = "main"
           /\ state = "DECIDING"
           /\ report.offsets # None
           /\ report.quality # "PERFEITO"
           /\ Abs(report.avg_offset[1]) <= NegligibleMs * U)
            => (/\ state' = "CONVERGED"
                /\ work' = work
                /\ total_correction' = total_correction
                /\ passes' = passes)]_vars
    /\ [][(method = "main" /\ state = "CONVERGED")
            => (/\ state' = "CONVERGED"
                /\ total_correction' = total_correction
                /\ passes' = passes
                /\ iteration' = iteration
                /\ report' = report
                /\ (work' = work \/ (output' = work /\ ~work'.exists)))]_vars

C15_Witness ==
    /\ state = "CONVERGED"
    /\ report.quality # "PERFEITO"
    /\ Abs(report.avg_offset[1]) = NegligibleMs * U
    /\ report.std_dev[1].num > 0
    /\ output.exists
    /\ output.subs = original.subs

(* C16: a correction is always followed by a new analysis pass, and the     *)
(* step that ends the loop as CONVERGED or EXHAUSTED applies no shift, so   *)
(* that the last report was computed on the track that is written out.      *)
C16_CorrectionReanalysed ==
    [][method = "main" =>
        /\ (state = "CORRECTING" => state' = "ANALYZING")
        /\ ((state' \in {"CONVERGED", "EXHAUSTED"} /\ state' # state) => work' = work)]_vars

(* C17: a pass labelled PERFEITO ends the loop as CONVERGED in the next     *)
(* step and without a shift, also when its mean is between 0.1 s and 0.3 s  *)
(* in size and whatever the number of iterations left.                      *)
C17_PerfectStops ==
    [][(/\ method = "main"
        /\ state = "DECIDING"
        /\ report.offsets # None
        /\ report.quality = "PERFEITO")
         => (/\ state' = "CONVERGED"
             /\ work' = work
             /\ total_correction' = total_correction
             /\ passes' = passes
             /\ iteration' = iteration)]_vars

C17_Witness ==
    /\ state = "CONVERGED"
    /\ report.quality = "PERFEITO"
    /\ Abs(report.avg_offset[1]) > NegligibleMs * U
    /\ Abs(report.avg_offset[1]) < 300 * U
    /\ shift = 250
    /\ total_correction = 0
    /\ output.exists
    /\ output.subs = original.subs

(* C18: the work file has the entries of the original track, each start     *)
(* and end moved by exactly the cumulative correction.                      *)
C18_CumulativeShift ==
    (method = "main" /\ work.exists) =>
        /\ Len(work.subs) = Len(original.subs)
        /\ \A i \in 1..Len(work.subs) :
              /\ work.subs[i].start * U = original.subs[i].start * U + total_correction
              /\ work.subs[i].end * U = original.subs[i].end * U + total_correction

(* The segments of the window that count: the first 15.                     *)
UsedSegments == SubSeq(speech, 1, Min(15, Len(speech)))

(* Whether entry j of the work file starts less than 5 s from segment i.    *)
Near(i, j) ==
    Abs(work.subs[j].start - (SamplePoint(duration, point) + UsedSegments[i])) < 5000

(* The used segments that have an entry near them, and the delta each       *)
(* records: its absolute time less the start of the first such entry.       *)
MatchedSegments == { i \in 1..Len(UsedSegments) : \E j \in 1..Len(work.subs) : Near(i, j) }

RecordedDelta(i) ==
    LET j == CHOOSE x \in 1..Len(work.subs) :
                Near(i, x) /\ \A y \in 1..(x - 1) : ~Near(i, y)
    IN  (SamplePoint(duration, point) + UsedSegments[i]) - work.subs[j].start

RecordedDeltas ==
    [ k \in 1..Cardinality(MatchedSegments) |->
        RecordedDelta(CHOOSE i \in MatchedSegments :
                         Cardinality({ x \in MatchedSegments : x < i }) = k - 1) ]

(* C19: a sample point uses the first 15 segments only; each records at     *)
(* most one delta, its absolute time less the start of an entry less than   *)
(* 5 s away; the point's offset is the median of these deltas, appended to  *)
(* the offsets, and a point without a delta leaves the offsets as they are. *)
C19_PointEstimate ==
    [][state = "E_CALL" =>
        /\ Len(RecordedDeltas) <= 15
        /\ \A k \in 1..Len(RecordedDeltas) : Abs(RecordedDeltas[k]) < 5000
        /\ offsets' = IF MatchedSegments = {} THEN offsets
                      ELSE Append(offsets, MedianX2(RecordedDeltas))]_vars

C19_Witness ==
    /\ state = "E_DONE"
    /\ Len(speech) = MaxHeard
    /\ Len(offsets) = 2
    /\ offsets[2] # MedianX2(Deltas(work.subs, speech, SamplePoint(duration, point - 1)))

(* C20: the work file is a conversion of the track exactly when a subtitle  *)
(* framerate was detected and differs from the video's by more than 0.5;    *)
(* then every start and end is the original one times video_fps / srt_fps   *)
(* (less the fraction of a millisecond that int() drops); otherwise the     *)
(* work file has the timestamps of the track.                               *)
C20_ConversionIff ==
    (state = "S_DURATION" /\ method # "main") =>
        /\ Len(work.subs) = Len(original.subs)
        /\ IF srt_fps # None /\ Abs(video_fps - srt_fps[1]) > 500
           THEN \A i \in 1..Len(work.subs) :
                  /\ work.subs[i].start * srt_fps[1] <= original.subs[i].start * video_fps
                  /\ original.subs[i].start * video_fps <= (work.subs[i].start + 1) * srt_fps[1]
                  /\ work.subs[i].end * srt_fps[1] <= original.subs[i].end * video_fps
                  /\ original.subs[i].end * video_fps <= (work.subs[i].end + 1) * srt_fps[1]
           ELSE work.subs = original.subs

C20_Witness ==
    /\ state = "S_DURATION"
    /\ srt_fps = Some(25000)
    /\ video_fps = 23976
    /\ Len(work.subs) = LongTrackLen
    /\ original.subs[LongTrackLen].start = 4000
    /\ work.subs[LongTrackLen].start = 3836

(* C21: a track of fewer than 100 entries, or one whose best candidate      *)
(* fits fewer than 0.3 of the sampled entries, gets no subtitle framerate,  *)
(* and the work file then has the timestamps of the track.                  *)
C21_UnknownWhenUndetectable ==
    (state = "S_DURATION" /\ method # "main") =>
        ( ( \/ Len(original.subs) < 100
            \/ 10 * BestScore(original.subs) < 3 * Min(200, Len(original.subs)) )
          => (srt_fps = None /\ work.subs = original.subs) )

(* C22: the confidence of a report is 0.95, 0.80, 0.60 or 0.40 by the       *)
(* bucket of its standard deviation (bounds 0.5, 1.0, 2.0, each exclusive   *)
(* above), whatever its mean.                                               *)
C22_ConfidenceOfStdev ==
    state = "K_DONE" =>
        \E m \in QualityMeans, s \in QualityDevs :
          /\ report.avg_offset = Some(m * U)
          /\ report.std_dev = Some(Deviation(s))
          /\ result # None
          /\ result[1].confidence
                = Some(IF s < 500 THEN 95
                       ELSE IF s < 1000 THEN 80
                       ELSE IF s < 2000 THEN 60
                       ELSE 40)

C22_Witness ==
    /\ state = "K_DONE"
    /\ report.avg_offset = Some(-2001 * U)
    /\ report.std_dev = Some(Deviation(499))
    /\ result[1].confidence = Some(95)

Separators == {".", "-", " ", "_"}

(* The pattern stands in the name as a token or a run of tokens: what is    *)
(* before it and after it is a separator or an end of the name.             *)
OccursAsToken(pat, s) ==
    \E i \in 1..(Len(s) - Len(pat) + 1) :
        /\ SubSeq(s, i, i + Len(pat) - 1) = pat
        /\ (i = 1 \/ s[i - 1] \in Separators)
        /\ (i + Len(pat) - 1 = Len(s) \/ s[i + Len(pat)] \in Separators)

TokenSource(name) ==
    LET s == UpperSeq(NameChars(name.text))
        hits == { i \in 1..Len(Sources) :
                    \E p \in Sources[i].patterns : OccursAsToken(PatternChars(p), s) }
    IN  IF hits = {} THEN ""
        ELSE Sources[CHOOSE i \in hits : \A j \in hits : i <= j].name

(* C24: the source tag of a name is that of the earliest entry of the       *)
(* priority list one of whose patterns is a token of the upper-cased name,  *)
(* and none when no entry has such a pattern.                               *)
C24_EarliestTokenWins ==
    (state = "S_FPS" /\ method = "sync_subtitles_with_log") =>
        /\ video_info.source = TokenSource(video_name)
        /\ subtitle_info.source = TokenSource(subtitle_name)

(* A release group without regard to letter case.                           *)
GroupKey(g) == IF g = "" THEN << >> ELSE UpperSeq(TokenChars(g))

(* C25: the versions are reported as mismatching exactly when both names    *)
(* have a source tag and the tags differ, or both have a release group and  *)
(* the groups differ in more than letter case; the mismatch lines or the    *)
(* compatible line are logged accordingly and the run goes on.              *)
C25_AdvisoryIffDiffer ==
    (state = "S_FPS" /\ method = "sync_subtitles_with_log") =>
        LET differ ==
              \/ /\ video_info.source # "" /\ subtitle_info.source # ""
                 /\ video_info.source # subtitle_info.source
              \/ /\ video_info.release_group # "" /\ subtitle_info.release_group # ""
                 /\ GroupKey(video_info.release_group) # GroupKey(subtitle_info.release_group)
        IN  /\ version_mismatch = differ
            /\ differ = (\E i \in 1..Len(log \o pending) :
                            (log \o pending)[i].msg \in {"AVISO: Fontes diferentes!",
                                                        "AVISO: Grupos de release diferentes!"})
            /\ ~differ = (\E i \in 1..Len(log \o pending) :
                            (log \o pending)[i].msg = "Versoes parecem compativeis")

(* The sample points at which the transcriber's answer matches an entry of  *)
(* the work file.                                                           *)
MatchablePoints ==
    { i \in 1..NumSamples :
        LET start_time == SamplePoint(duration, i)
            segments == Pick(Heard(speech, WindowStart(start_time)), hearing[i], 1)
        IN  compute_offset_for_segment(work.subs, segments, start_time) # << >> }

(* C26: a run of sync_subtitles_with_log in which no collaborator raises    *)
(* and at least 3 sample points can be matched returns success with the     *)
(* corrected track written to the output.                                   *)
C26_SucceedsWhenAnalysable ==
    (/\ method = "sync_subtitles_with_log"
     /\ state = "S_RETURNED"
     /\ raised \notin CollaboratorErrors
     /\ work.exists
     /\ Cardinality(MatchablePoints) >= MinValidPoints)
        => (result # None /\ result[1].success /\ output.exists)

(* C27: at every sample point that has been analysed, the start of the      *)
(* audio window asked of the extractor is the point's timestamp, the one    *)
(* added to the segment starts.                                             *)
C27_WindowAtPoint ==
    (state = "ANALYZING" /\ point > 1) =>
        \A i \in 1..(point - 1) :
            WindowStart(SamplePoint(duration, i)) = SamplePoint(duration, i)

(* The corrections main() has applied so far.                               *)
CorrectionsApplied ==
    IF state = "START" THEN 0
    ELSE IF state = "EXHAUSTED" THEN iteration
    ELSE iteration - 1

(* C28: every delta the estimator can record at a sample point, every       *)
(* per-point median and every mean is less than 5 s in size; a correcting   *)
(* step moves no entry by 5 s or more, and after n corrections the          *)
(* cumulative correction is less than 5n s in size.                         *)
C28_BelowWindow ==
    /\ [](method = "main" =>
            /\ \A i \in 1..Len(offsets) : Abs(offsets[i]) < 2 * MatchWindowMs
            /\ ((state = "ANALYZING" /\ point <= NumSamples) =>
                  \A segments \in Transcripts(speech, WindowStart(SamplePoint(duration, point)),
                                              hearing[point]) :
                    LET d == Deltas(work.subs, segments, SamplePoint(duration, point))
                    IN  \A i \in 1..Len(d) : Abs(d[i]) < MatchWindowMs)
            /\ (report.avg_offset # None => Abs(report.avg_offset[1]) < MatchWindowMs * U)
            /\ (CorrectionsApplied = 0 => total_correction = 0)
            /\ (CorrectionsApplied > 0 =>
                  Abs(total_correction) < MatchWindowMs * U * CorrectionsApplied))
    /\ [][(method = "main" /\ state = "CORRECTING") =>
            /\ Abs(total_correction' - total_correction) < MatchWindowMs * U
            /\ \A i \in 1..Len(work.subs) :
                  /\ Abs(work'.subs[i].start - work.subs[i].start) < MatchWindowMs
                  /\ Abs(work'.subs[i].end - work.subs[i].end) < MatchWindowMs]_vars

C28_Witness ==
    /\ method = "main"
    /\ state = "ANALYZING"
    /\ iteration = 2
    /\ Abs(total_correction) >= 4000 * U
    /\ work.subs[1].start - original.subs[1].start >= 4000

(* The largest delta segment i has with an entry less than 5 s away.        *)
LargestDelta(i) ==
    LET all == { (SamplePoint(duration, point) + UsedSegments[i]) - work.subs[j].start :
                    j \in { x \in 1..Len(work.subs) : Near(i, x) } }
    IN  CHOOSE d \in all : \A e \in all : e <= d

LargestDeltas ==
    [ k \in 1..Cardinality(MatchedSegments) |->
        LargestDelta(CHOOSE i \in MatchedSegments :
                        Cardinality({ x \in MatchedSegments : x < i }) = k - 1) ]

TrackOrdered ==
    \A j \in 1..(Len(work.subs) - 1) : work.subs[j].start <= work.subs[j + 1].start

(* C29: on a track ordered by start time the delta a segment records is     *)
(* the largest of its deltas with the entries less than 5 s away (the       *)
(* first such entry in track order, not the nearest), and the point's       *)
(* offset is the median of these.                                           *)
C29_FirstNotNearest ==
    [][(state = "E_CALL" /\ TrackOrdered) =>
        /\ Deltas(work.subs, UsedSegments, SamplePoint(duration, point)) = LargestDeltas
        /\ \A i \in MatchedSegments :
              LET absolute_time == SamplePoint(duration, point) + UsedSegments[i]
                  m == FirstMatch(work.subs, absolute_time)
              IN  /\ m # 0
                  /\ \A j \in 1..Len(work.subs) : Near(i, j) => m <= j
        /\ offsets' = IF MatchedSegments = {} THEN offsets
                      ELSE Append(offsets, MedianX2(LargestDeltas))]_vars

C29_Witness ==
    /\ state = "E_DONE"
    /\ Len(speech) >= 3
    /\ Len(offsets) >= 1
    /\ LET absolute_time == SamplePoint(duration, point - 1) + speech[3]
           m == FirstMatch(work.subs, absolute_time)
       IN  /\ m # 0
           /\ \E j \in (m + 1)..Len(work.subs) :
                 Abs(work.subs[j].start - absolute_time)
                    < Abs(work.subs[m].start - absolute_time)
           /\ NearestMatch(work.subs, absolute_time) > m
           /\ offsets[Len(offsets)]
                 = MedianX2(Deltas(work.subs,
                                   SubSeq(speech, 1, Min(MaxSegments, Len(speech))),
                                   SamplePoint(duration, point - 1)))

(* C30: what a poll has returned is a prefix of the log as it is from then  *)
(* on, and a poll answers complete = true only when the run has written    *)
(* its last line, the completion marker.                                    *)
C30_CompleteOnlyAtEnd ==
    (method = "sync_subtitles_with_log" /\ polled # None) =>
        /\ Len(polled[1].logs) <= Len(log)
        /\ SubSeq(log, 1, Len(polled[1].logs)) = polled[1].logs
        /\ (polled[1].complete =>
              /\ state \in {"S_RETURN", "S_RETURNED"}
              /\ pending = << >>
              /\ log[Len(log)] = Line("Complete"))

=============================================================================
